---- MODULE Spec2Model ----
(***************************************************************************)
(* Shape Slicer: the grid-cutting and shape-matching engine                *)
(* (src/utils/geometry.ts) and the game state around it                    *)
(* (src/client/components/GameCanvas.tsx, the client App).                 *)
(*                                                                         *)
(* Cells, coordinates and pieces are records as in src/types.ts.  A cell   *)
(* list is a sequence (a JavaScript array): it may list a cell twice, as   *)
(* the initial shape of practice-level-3 does.  JavaScript strings are     *)
(* sequences of one-character strings, so that the template literals and   *)
(* split/parseInt of the source are computed rather than assumed.          *)
(***************************************************************************)
EXTENDS Integers, Sequences, FiniteSets, TLC

VARIABLES
    call,               \* the engine call under examination: its arguments and result
    \* the client App (src/unnamed/part_003)
    userName,           \* None until the name modal is submitted
    customLevels,       \* the levels saved from the level builder
    isEditorMode,       \* the page was opened with ?mode=editor
    isBuilderOpen,      \* the level builder is shown in place of the canvas
    levelIndex,         \* index into LEVELS, counted from 0
    pieces,             \* the displayed piece collection, topmost piece last
    history,            \* snapshots of the piece collection
    historyIndex,       \* index into history, counted from 0; -1 when empty
    cutCount,
    drawnEdges,         \* the cut set: a set of edge keys
    showWinModal,
    isGameComplete,
    \* GameCanvas (src/client/components/GameCanvas.tsx)
    mode,               \* "MOVE", "PEN" or "ERASER"
    selectedPieceId,
    dragOffset,         \* pointer position relative to the dragged piece, in cells
    dragPosition,       \* where the dragged piece would land, in cells
    dragStartGridPos,
    isDrawing,
    lastDrawGridPos,
    now,                \* the value Date.now() returns; it moves on with Tick
    \* history variable, not program state
    created,            \* the id of every piece constructed so far, in order
    lastStep            \* the handler that ran last and the state it ran in

editorVars == <<customLevels, isEditorMode, isBuilderOpen>>

appVars == <<userName, editorVars, levelIndex, pieces, history, historyIndex, cutCount,
             drawnEdges, showWinModal, isGameComplete>>

canvasVars == <<mode, selectedPieceId, dragOffset, dragPosition, dragStartGridPos,
                isDrawing, lastDrawGridPos>>

\* Everything but the engine call
historyVars == <<created, lastStep>>

gameVars == <<appVars, canvasVars, now, historyVars>>

vars == <<call, gameVars>>

-----------------------------------------------------------------------------
(* Generic helpers *)

Range(s) == {s[i] : i \in 1..Len(s)}

Min(S) == CHOOSE m \in S : \A n \in S : m <= n

Max(S) == CHOOSE m \in S : \A n \in S : m >= n

Abs(n) == IF n < 0 THEN -n ELSE n

RECURSIVE ScanList(_)
\* The cells of S in row-major order: by y, then by x
ScanList(S) ==
    IF S = {} THEN <<>>
    ELSE LET first == CHOOSE c \in S :
                          \A d \in S : c.y < d.y \/ (c.y = d.y /\ c.x <= d.x)
         IN  <<first>> \o ScanList(S \ {first})

Reverse(s) == [i \in 1..Len(s) |-> s[Len(s) + 1 - i]]

RECURSIVE SubsetsUpTo(_, _)
\* All subsets of S with at most n elements
SubsetsUpTo(S, n) ==
    IF n = 0 THEN {{}}
    ELSE LET smaller == SubsetsUpTo(S, n - 1)
         IN  smaller \cup {s \cup {e} : s \in smaller, e \in S}

-----------------------------------------------------------------------------
(* JavaScript number-to-string conversion, as used by template literals *)

Digits == <<"0", "1", "2", "3", "4", "5", "6", "7", "8", "9">>

\* The number NaN: JavaScript numbers are the integers and this one value,
\* which lies outside every coordinate built here
NaN == -999999

RECURSIVE NatToStr(_)
NatToStr(n) ==
    IF n < 10 THEN <<Digits[n + 1]>>
    ELSE NatToStr(n \div 10) \o <<Digits[(n % 10) + 1]>>

IntToStr(n) ==
    IF n = NaN THEN <<"N", "a", "N">>
    ELSE IF n < 0 THEN <<"-">> \o NatToStr(-n) ELSE NatToStr(n)

\* `${c.x},${c.y}`
cellKey(x, y) == IntToStr(x) \o <<",">> \o IntToStr(y)

\* `${e.x},${e.y},${e.vertical ? 'v' : 'h'}`
getEdgeAsKey(e) ==
    IntToStr(e.x) \o <<",">> \o IntToStr(e.y) \o <<",">>
        \o <<IF e.vertical THEN "v" ELSE "h">>

-----------------------------------------------------------------------------
(* src/utils/geometry.ts: coordinates and transforms *)

Cell(x, y) == [x |-> x, y |-> y]

\* Mutant: the sign of x is lost
rotatePoint_AbsX(p) == [x |-> -p.y, y |-> Abs(p.x)]

rotatePoint(p) == [x |-> -p.y, y |-> p.x]

flipPoint(p) == [x |-> -p.x, y |-> p.y]

RECURSIVE rotateTimes(_, _)
\* the loop `for (i = 0; i < rots; i++) curr = rotatePoint(curr)`
rotateTimes(p, rots) ==
    IF rots <= 0 THEN p ELSE rotateTimes(rotatePoint(p), rots - 1)

\* Mutant: the flip is applied after the rotation
absoluteCell_RotateThenFlip(piece, cell) ==
    LET rots    == (piece.rotation \div 90) % 4
        curr    == rotateTimes(cell, rots)
        flipped == IF piece.isFlipped THEN flipPoint(curr) ELSE curr
    IN  [x |-> flipped.x + piece.position.x, y |-> flipped.y + piece.position.y]

\* One cell of getAbsoluteCells: flip, then rotate, then translate
absoluteCell(piece, cell) ==
    LET flipped == IF piece.isFlipped THEN flipPoint(cell) ELSE cell
        rots    == (piece.rotation \div 90) % 4
        curr    == rotateTimes(flipped, rots)
    IN  [x |-> curr.x + piece.position.x, y |-> curr.y + piece.position.y]

getAbsoluteCells(piece) ==
    [i \in 1..Len(piece.cells) |-> absoluteCell(piece, piece.cells[i])]

\* Mutant: only the x coordinates are shifted to zero
normalizePiece_OnlyX(cells) ==
    IF Len(cells) = 0 THEN [normalized |-> <<>>, offset |-> Cell(0, 0)]
    ELSE LET minX == Min({cells[i].x : i \in 1..Len(cells)})
         IN  [normalized |-> [i \in 1..Len(cells) |-> Cell(cells[i].x - minX, cells[i].y)],
              offset |-> Cell(minX, 0)]

normalizePiece(cells) ==
    IF Len(cells) = 0 THEN [normalized |-> <<>>, offset |-> Cell(0, 0)]
    ELSE LET minX == Min({cells[i].x : i \in 1..Len(cells)})
             minY == Min({cells[i].y : i \in 1..Len(cells)})
         IN  [normalized |-> [i \in 1..Len(cells) |->
                                 Cell(cells[i].x - minX, cells[i].y - minY)],
              offset |-> Cell(minX, minY)]

-----------------------------------------------------------------------------
(* src/utils/geometry.ts: checkSolution *)

RECURSIVE flatMapAbsoluteCells(_)
\* pieces.flatMap(getAbsoluteCells)
flatMapAbsoluteCells(pieceList) ==
    IF pieceList = <<>> THEN <<>>
    ELSE getAbsoluteCells(Head(pieceList)) \o flatMapAbsoluteCells(Tail(pieceList))

\* Mutant: the piece-count gate lets more than two pieces through
checkSolution_AtLeastTwo(pieceList, targetCells) ==
    IF Len(pieceList) < 2 THEN FALSE
    ELSE IF \E i \in 1..Len(pieceList) : Len(pieceList[i].cells) < 3 THEN FALSE
    ELSE LET allAbsCells  == flatMapAbsoluteCells(pieceList)
             currentShape == normalizePiece(allAbsCells).normalized
             targetShape  == normalizePiece(targetCells).normalized
             currentSet   == {cellKey(currentShape[i].x, currentShape[i].y) :
                                 i \in 1..Len(currentShape)}
         IN  IF Len(allAbsCells) = 0 THEN FALSE
             ELSE IF Len(currentShape) # Len(targetShape) THEN FALSE
             ELSE \A i \in 1..Len(targetShape) :
                      cellKey(targetShape[i].x, targetShape[i].y) \in currentSet

\* Mutant: the current arrangement is compared where it stands, not normalized
checkSolution_NoNormalize(pieceList, targetCells) ==
    IF Len(pieceList) # 2 THEN FALSE
    ELSE IF \E i \in 1..Len(pieceList) : Len(pieceList[i].cells) < 3 THEN FALSE
    ELSE LET allAbsCells  == flatMapAbsoluteCells(pieceList)
             currentShape == allAbsCells
             targetShape  == normalizePiece(targetCells).normalized
             currentSet   == {cellKey(currentShape[i].x, currentShape[i].y) :
                                 i \in 1..Len(currentShape)}
         IN  IF Len(allAbsCells) = 0 THEN FALSE
             ELSE IF Len(currentShape) # Len(targetShape) THEN FALSE
             ELSE \A i \in 1..Len(targetShape) :
                      cellKey(targetShape[i].x, targetShape[i].y) \in currentSet

\* Mutant: the membership test runs the other way, current cells in the target
checkSolution_CurrentInTarget(pieceList, targetCells) ==
    IF Len(pieceList) # 2 THEN FALSE
    ELSE IF \E i \in 1..Len(pieceList) : Len(pieceList[i].cells) < 3 THEN FALSE
    ELSE LET allAbsCells  == flatMapAbsoluteCells(pieceList)
             currentShape == normalizePiece(allAbsCells).normalized
             targetShape  == normalizePiece(targetCells).normalized
             targetSet    == {cellKey(targetShape[i].x, targetShape[i].y) :
                                 i \in 1..Len(targetShape)}
         IN  IF Len(allAbsCells) = 0 THEN FALSE
             ELSE IF Len(currentShape) # Len(targetShape) THEN FALSE
             ELSE \A i \in 1..Len(currentShape) :
                      cellKey(currentShape[i].x, currentShape[i].y) \in targetSet

checkSolution(pieceList, targetCells) ==
    \* Enforce puzzle constraints: exactly 2 pieces, minimum 3 cells each
    IF Len(pieceList) # 2 THEN FALSE
    ELSE IF \E i \in 1..Len(pieceList) : Len(pieceList[i].cells) < 3 THEN FALSE
    ELSE LET allAbsCells  == flatMapAbsoluteCells(pieceList)
             currentShape == normalizePiece(allAbsCells).normalized
             targetShape  == normalizePiece(targetCells).normalized
             currentSet   == {cellKey(currentShape[i].x, currentShape[i].y) :
                                 i \in 1..Len(currentShape)}
         IN  IF Len(allAbsCells) = 0 THEN FALSE
             ELSE IF Len(currentShape) # Len(targetShape) THEN FALSE
             ELSE \A i \in 1..Len(targetShape) :
                      cellKey(targetShape[i].x, targetShape[i].y) \in currentSet

-----------------------------------------------------------------------------
(* src/utils/geometry.ts: THE CUTTING ALGORITHM *)

\* const cellSet = new Set(absCells.map(c => `${c.x},${c.y}`))
cellSetOf(absCells) == {cellKey(absCells[i].x, absCells[i].y) : i \in 1..Len(absCells)}

\* cutEdges.forEach(e => cuts.add(`${e.x},${e.y},${e.vertical ? 'v' : 'h'}`))
\* Mutant: the orientation letters exchanged
cutsOf_SwappedLetters(cutEdges) ==
    {cellKey(e.x, e.y) \o <<",">> \o <<IF e.vertical THEN "h" ELSE "v">> :
        e \in cutEdges}

cutsOf(cutEdges) ==
    {cellKey(e.x, e.y) \o <<",">> \o <<IF e.vertical THEN "v" ELSE "h">> :
        e \in cutEdges}

vKey(x, y) == cellKey(x, y) \o <<",", "v">>

hKey(x, y) == cellKey(x, y) \o <<",", "h">>

\* Mutant: the left neighbour is tested against the cell's own right edge
getNeighbors_LeftUsesOwnEdge(c, cellSet, cuts) ==
    (IF cellKey(c.x + 1, c.y) \in cellSet /\ vKey(c.x, c.y) \notin cuts
        THEN <<Cell(c.x + 1, c.y)>> ELSE <<>>)
    \o (IF cellKey(c.x - 1, c.y) \in cellSet /\ vKey(c.x, c.y) \notin cuts
        THEN <<Cell(c.x - 1, c.y)>> ELSE <<>>)
    \o (IF cellKey(c.x, c.y + 1) \in cellSet /\ hKey(c.x, c.y) \notin cuts
        THEN <<Cell(c.x, c.y + 1)>> ELSE <<>>)
    \o (IF cellKey(c.x, c.y - 1) \in cellSet /\ hKey(c.x, c.y - 1) \notin cuts
        THEN <<Cell(c.x, c.y - 1)>> ELSE <<>>)

\* Right, Left, Down, Up: the neighbour is occupied and the edge between is not cut
getNeighbors(c, cellSet, cuts) ==
    (IF cellKey(c.x + 1, c.y) \in cellSet /\ vKey(c.x, c.y) \notin cuts
        THEN <<Cell(c.x + 1, c.y)>> ELSE <<>>)
    \o (IF cellKey(c.x - 1, c.y) \in cellSet /\ vKey(c.x - 1, c.y) \notin cuts
        THEN <<Cell(c.x - 1, c.y)>> ELSE <<>>)
    \o (IF cellKey(c.x, c.y + 1) \in cellSet /\ hKey(c.x, c.y) \notin cuts
        THEN <<Cell(c.x, c.y + 1)>> ELSE <<>>)
    \o (IF cellKey(c.x, c.y - 1) \in cellSet /\ hKey(c.x, c.y - 1) \notin cuts
        THEN <<Cell(c.x, c.y - 1)>> ELSE <<>>)

RECURSIVE visitNeighbors(_, _)
\* for (const nei of neighbors) if (!visited.has(neiKey)) { add, push, push }
\* st = [visited, component, queue]
visitNeighbors(neighbors, st) ==
    IF neighbors = <<>> THEN st
    ELSE LET nei    == Head(neighbors)
             neiKey == cellKey(nei.x, nei.y)
         IN  IF neiKey \notin st.visited
             THEN visitNeighbors(Tail(neighbors),
                      [visited   |-> st.visited \cup {neiKey},
                       component |-> Append(st.component, nei),
                       queue     |-> Append(st.queue, nei)])
             ELSE visitNeighbors(Tail(neighbors), st)

RECURSIVE floodFill(_, _, _)
\* while (queue.length > 0) { curr = queue.shift(); ... }
floodFill(st, cellSet, cuts) ==
    IF st.queue = <<>> THEN st
    ELSE LET curr == Head(st.queue)
             rest == [st EXCEPT !.queue = Tail(st.queue)]
         IN  floodFill(visitNeighbors(getNeighbors(curr, cellSet, cuts), rest),
                       cellSet, cuts)

RECURSIVE findComponents_NoVisitedSkip(_, _, _, _, _)
\* Mutant: a start node already visited is not skipped
findComponents_NoVisitedSkip(absCells, visited, newPieces, cellSet, cuts) ==
    IF absCells = <<>> THEN newPieces
    ELSE LET startNode == Head(absCells)
             key       == cellKey(startNode.x, startNode.y)
             st == floodFill([visited   |-> visited \cup {key},
                              component |-> <<startNode>>,
                              queue     |-> <<startNode>>],
                             cellSet, cuts)
         IN  findComponents_NoVisitedSkip(Tail(absCells), st.visited,
                                          Append(newPieces, st.component),
                                          cellSet, cuts)

RECURSIVE findComponents_SharedComponent(_, _, _, _, _)
\* Mutant: the component list is not started afresh for each start node
findComponents_SharedComponent(absCells, visited, newPieces, cellSet, cuts) ==
    IF absCells = <<>> THEN newPieces
    ELSE LET startNode == Head(absCells)
             key       == cellKey(startNode.x, startNode.y)
             soFar     == IF newPieces = <<>> THEN <<>> ELSE newPieces[1]
         IN  IF key \in visited
             THEN findComponents_SharedComponent(Tail(absCells), visited, newPieces,
                                                 cellSet, cuts)
             ELSE LET st == floodFill([visited   |-> visited \cup {key},
                                       component |-> Append(soFar, startNode),
                                       queue     |-> <<startNode>>],
                                      cellSet, cuts)
                  IN  findComponents_SharedComponent(Tail(absCells), st.visited,
                                                     <<st.component>>, cellSet, cuts)

RECURSIVE findComponents(_, _, _, _, _)
\* for (const startNode of absCells) { if (visited.has(key)) continue; ... }
findComponents(absCells, visited, newPieces, cellSet, cuts) ==
    IF absCells = <<>> THEN newPieces
    ELSE LET startNode == Head(absCells)
             key       == cellKey(startNode.x, startNode.y)
         IN  IF key \in visited
             THEN findComponents(Tail(absCells), visited, newPieces, cellSet, cuts)
             ELSE LET st == floodFill([visited   |-> visited \cup {key},
                                       component |-> <<startNode>>,
                                       queue     |-> <<startNode>>],
                                      cellSet, cuts)
                  IN  findComponents(Tail(absCells), st.visited,
                                     Append(newPieces, st.component), cellSet, cuts)

\* id: `${piece.id}-${Date.now()}-${idx}` with idx counted from 0
cutPieceId(parentId, timestamp, idx) ==
    parentId \o <<"-">> \o IntToStr(timestamp) \o <<"-">> \o IntToStr(idx)

\* Mutant: the source piece's orientation is carried over
componentToPiece_KeepsOrientation(piece, comp, timestamp, idx) ==
    LET n == normalizePiece(comp)
    IN  [id        |-> cutPieceId(piece.id, timestamp, idx),
         cells     |-> n.normalized,
         position  |-> n.offset,
         rotation  |-> piece.rotation,
         isFlipped |-> piece.isFlipped,
         color     |-> piece.color]

\* newPieces.map((comp, idx) => ...)
componentToPiece(piece, comp, timestamp, idx) ==
    LET n == normalizePiece(comp)
    IN  [id        |-> cutPieceId(piece.id, timestamp, idx),
         cells     |-> n.normalized,
         position  |-> n.offset,
         rotation  |-> 0,
         isFlipped |-> FALSE,
         color     |-> piece.color]

performCut(piece, cutEdges, timestamp) ==
    LET absCells  == getAbsoluteCells(piece)
        cellSet   == cellSetOf(absCells)
        cuts      == cutsOf(cutEdges)
        newPieces == findComponents(absCells, {}, <<>>, cellSet, cuts)
    IN  [i \in 1..Len(newPieces) |-> componentToPiece(piece, newPieces[i], timestamp, i - 1)]

-----------------------------------------------------------------------------
(* Program constants *)

\* src/client/constants.ts: COLORS
COLORS == <<"#60a5fa", "#f472b6", "#4ade80", "#fbbf24", "#a78bfa", "#f87171">>

Rotations == {0, 90, 180, 270}

\* src/client/constants.ts: START_OFFSET
START_OFFSET == Cell(2, 0)

\* An optional value (T | null): absent, or present
None == <<>>

Some(v) == <<v>>

\* useState initial values of GameCanvas
CanvasMounted ==
    /\ mode = "PEN"
    /\ selectedPieceId = None
    /\ dragOffset = None
    /\ dragPosition = None
    /\ dragStartGridPos = None
    /\ isDrawing = FALSE
    /\ lastDrawGridPos = None

\* useState initial values of App: no player yet, nothing loaded, no piece
\* constructed; editor is whether the URL asks for the editor
AppConstructedWith(editor) ==
    /\ userName = None
    /\ customLevels = <<>>
    /\ isEditorMode = editor
    /\ isBuilderOpen = FALSE
    /\ levelIndex = 0
    /\ pieces = <<>>
    /\ history = <<>>
    /\ historyIndex = -1
    /\ cutCount = 0
    /\ drawnEdges = {}
    /\ showWinModal = FALSE
    /\ isGameComplete = FALSE
    /\ CanvasMounted
    /\ now = 0
    /\ created = <<>>
    /\ lastStep = [op |-> "none"]

\* The page opened at its plain URL
AppConstructed == AppConstructedWith(FALSE)

-----------------------------------------------------------------------------
(* The cutting engine examined on its own: SpecCut                         *)
(*                                                                         *)
(* A piece of the game has a non-empty cell list normalized to (0,0)       *)
(* (loadLevel and performCut both store normalizePiece's result), any      *)
(* orientation and any position.  The list may repeat a cell               *)
(* (practice-level-3) and need not be connected (a custom level's start    *)
(* shape is whatever the builder's grid holds).                            *)

MaxEdges == 2

LocalGrid == {Cell(x, y) : x \in 0..1, y \in 0..1}

\* Every non-empty set of cells of the grid, listed row by row (as rect() and
\* the level builder list them), listed backwards, and listed row by row with
\* its first cell once more at the end
CellLists ==
    LET rowByRow == {ScanList(S) : S \in (SUBSET LocalGrid) \ {{}}}
    IN  rowByRow \cup {Reverse(l) : l \in rowByRow}
                 \cup {Append(l, l[1]) : l \in rowByRow}

CutShapes == {normalizePiece(l).normalized : l \in CellLists}

CutPlacements ==
    {[position |-> Cell(0, 0), color |-> COLORS[1]],
     [position |-> Cell(2, -1), color |-> COLORS[2]]}

CutInputPieces ==
    {[id        |-> <<"root-piece">>,
      cells     |-> c,
      position  |-> pl.position,
      rotation  |-> r,
      isFlipped |-> f,
      color     |-> pl.color] : c \in CutShapes, pl \in CutPlacements,
                                r \in Rotations, f \in BOOLEAN}

\* The inner edges of the 3x3 block of cells around a position: every edge a
\* piece of CutShapes placed there can have between two of its cells, in any
\* orientation; for one orientation most of them lie outside the piece.
EdgeWindow(pos) ==
    {[x |-> pos.x + dx, y |-> pos.y + dy, vertical |-> TRUE] :
        dx \in -1..0, dy \in -1..1}
    \cup {[x |-> pos.x + dx, y |-> pos.y + dy, vertical |-> FALSE] :
        dx \in -1..1, dy \in -1..0}

InitCut ==
    \E piece \in CutInputPieces :
        \E edges \in SubsetsUpTo(EdgeWindow(piece.position), MaxEdges) :
            /\ call = [fn |-> "performCut", piece |-> piece, cutEdges |-> edges,
                       done |-> FALSE, ret |-> <<>>]
            /\ AppConstructed

CallPerformCut ==
    /\ call.fn = "performCut"
    /\ ~call.done
    /\ call' = [call EXCEPT !.done = TRUE,
                            !.ret = performCut(call.piece, call.cutEdges, now)]
    /\ UNCHANGED gameVars

NextCut == CallPerformCut

SpecCut == InitCut /\ [][NextCut]_vars

-----------------------------------------------------------------------------
(* Reference notions the cut claims are stated in: plain sets of cells,    *)
(* no keys, no traversal order.                                            *)

CellsOf(cells) == Range(cells)

\* The cells a piece occupies on the board
Occupied(piece) == CellsOf(getAbsoluteCells(piece))

\* The edge between two side-adjacent cells, anchored at the lower-indexed one
EdgeBetween(a, b) ==
    IF a.y = b.y
    THEN [x |-> IF a.x < b.x THEN a.x ELSE b.x, y |-> a.y, vertical |-> TRUE]
    ELSE [x |-> a.x, y |-> IF a.y < b.y THEN a.y ELSE b.y, vertical |-> FALSE]

SideAdjacent(a, b) == Abs(a.x - b.x) + Abs(a.y - b.y) = 1

Joined(a, b, edges) == SideAdjacent(a, b) /\ EdgeBetween(a, b) \notin edges

RECURSIVE Grow(_, _, _)
Grow(S, cells, edges) ==
    LET more == S \cup {b \in cells : \E a \in S : Joined(a, b, edges)}
    IN  IF more = S THEN S ELSE Grow(more, cells, edges)

\* The cells joined to a by a path of side-adjacent cells crossing no edge of edges
Reach(a, cells, edges) == Grow({a}, cells, edges)

\* The pairs <<a, b>> of cells joined by such a path
JoinedPairs(cells, edges) ==
    UNION {{<<a, b>> : b \in Reach(a, cells, edges)} : a \in cells}

ComponentsOf(cells, edges) == {Reach(a, cells, edges) : a \in cells}

Connected4(cells) == \A a \in cells : Reach(a, cells, {}) = cells

\* The edges of a set that lie between two occupied cells
EdgesInside(cells, edges) ==
    {e \in edges : \E a, b \in cells : SideAdjacent(a, b) /\ EdgeBetween(a, b) = e}

RECURSIVE SumLen(_)
SumLen(pieceList) ==
    IF pieceList = <<>> THEN 0 ELSE Len(Head(pieceList).cells) + SumLen(Tail(pieceList))

CutDone == call.fn = "performCut" /\ call.done

CutIn == Occupied(call.piece)

CutOut(i) == Occupied(call.ret[i])

\* C1: performCut returns exactly the connected components of the piece's
\* absolute cells under the adjacency blocked by the cut edges: two occupied
\* cells are in the same output piece iff an uncut path joins them, there is one
\* output piece per component, and cut edges that do not lie between two
\* occupied cells do not change the result.
C1_CutIsComponents ==
    CutDone =>
        LET in     == CutIn
            out    == [i \in 1..Len(call.ret) |-> CutOut(i)]
            joined == JoinedPairs(in, call.cutEdges)
            comps  == ComponentsOf(in, call.cutEdges)
        IN  /\ \A a, b \in in :
                  (\E i \in 1..Len(out) : a \in out[i] /\ b \in out[i])
                      <=> <<a, b>> \in joined
            /\ Range(out) = comps
            /\ Len(out) = Cardinality(comps)
            /\ call.ret = performCut(call.piece, EdgesInside(in, call.cutEdges), 0)

\* C1 witness: a cut into three pieces by two edges
C1_Witness ==
    /\ CutDone
    /\ Len(call.ret) = 3
    /\ Cardinality(call.cutEdges) = 2
    /\ call.piece.rotation = 270
    /\ call.piece.isFlipped

C3_OutputConnected ==
    CutDone =>
        \A i \in 1..Len(call.ret) :
            /\ call.ret[i].cells # <<>>
            /\ Connected4(CellsOf(call.ret[i].cells))

\* C3 witness: a four-cell block cut into two two-cell pieces
C3_Witness ==
    /\ CutDone
    /\ Cardinality(CutIn) = 4
    /\ Len(call.ret) = 2
    /\ \A i \in 1..2 : Len(call.ret[i].cells) = 2

\* The cut set separates no pair of occupied cells: cells joined by a path in
\* the uncut piece are still joined by a path that crosses no cut edge
SeparatesNothing(cells, edges) ==
    JoinedPairs(cells, edges) = JoinedPairs(cells, {})

C5_OutputNormalized ==
    CutDone =>
        \A i \in 1..Len(call.ret) :
            LET p == call.ret[i]
            IN  /\ p.rotation = 0
                /\ p.isFlipped = FALSE
                /\ Min({p.cells[k].x : k \in 1..Len(p.cells)}) = 0
                /\ Min({p.cells[k].y : k \in 1..Len(p.cells)}) = 0
                /\ \E a \in CutIn :
                      LET comp == Reach(a, CutIn, call.cutEdges)
                      IN  /\ p.position = Cell(Min({c.x : c \in comp}),
                                               Min({c.y : c \in comp}))
                          /\ {Cell(p.position.x + p.cells[k].x,
                                   p.position.y + p.cells[k].y) :
                                 k \in 1..Len(p.cells)} = comp
                /\ p.color = call.piece.color

\* C5 witness: a flipped, rotated, pink piece away from the origin is split
C5_Witness ==
    /\ CutDone
    /\ call.piece.rotation = 90
    /\ call.piece.isFlipped
    /\ call.piece.color = COLORS[2]
    /\ call.piece.position # Cell(0, 0)
    /\ Len(call.ret) >= 2

-----------------------------------------------------------------------------
(* The solution checker examined on its own: SpecMatch                     *)
(*                                                                         *)
(* The arguments are those the game can pass: a level's target lists       *)
(* distinct, normalized cells (rect() in the constants, a Set in the       *)
(* level builder); the pieces of a level list, between them, as many cells *)
(* as the target has (the built-in levels; the builder refuses to save a   *)
(* level whose start and target sizes differ), each piece has normalized   *)
(* cells and may lie anywhere, in any orientation, also on top of another. *)

rect(w, h) == [i \in 1..(w * h) |-> Cell((i - 1) % w, (i - 1) \div w)]

MatchTargets ==
    {rect(3, 2), rect(2, 3), rect(3, 3),
     <<Cell(0, 0), Cell(1, 0), Cell(2, 0), Cell(1, 1), Cell(2, 1), Cell(3, 1)>>}

I2 == rect(2, 1)

I3 == rect(3, 1)

L3 == <<Cell(0, 0), Cell(1, 0), Cell(0, 1)>>

O4 == rect(2, 2)

PlacedAt(cells, id, xs, ys) ==
    {[id        |-> id,
      cells     |-> cells,
      position  |-> Cell(px, py),
      rotation  |-> r,
      isFlipped |-> f,
      color     |-> COLORS[1]] : px \in xs, py \in ys, r \in Rotations, f \in BOOLEAN}

Placed(cells, id) == PlacedAt(cells, id, 0..1, 0..1)

\* Placed upright only: not flipped, rotation 0 or 90
PlacedUpright(cells, id) ==
    {p \in Placed(cells, id) : ~p.isFlipped /\ p.rotation \in {0, 90}}

idA == cutPieceId(<<"root-piece">>, 0, 0)

idB == cutPieceId(<<"root-piece">>, 0, 1)

idC == cutPieceId(<<"root-piece">>, 0, 2)

MatchPieceLists ==
    {<<>>}
    \cup {<<p>> : p \in Placed(rect(3, 2), <<"root-piece">>)}
    \cup {<<p, q>> : p \in Placed(I3, idA) \cup Placed(L3, idA),
                     q \in Placed(I3, idB) \cup Placed(L3, idB)}
    \cup {<<p, q>> : p \in Placed(I2, idA), q \in Placed(O4, idB)}
    \cup {<<p, q>> : p \in Placed(O4, idA), q \in Placed(I2, idB)}
    \cup {<<p, q, r>> : p \in PlacedUpright(I2, idA), q \in PlacedUpright(I2, idB),
                        r \in Placed(I2, idC)}
    \cup {<<p, q, r>> : p \in PlacedUpright(I3, idA), q \in PlacedUpright(I3, idB),
                        r \in PlacedAt(I3, idC, 0..1, 1..2)}

Shifts == {Cell(1, 0), Cell(-3, 2)}

translateAll(pieceList, v) ==
    [i \in 1..Len(pieceList) |->
        [pieceList[i] EXCEPT !.position = Cell(pieceList[i].position.x + v.x,
                                            pieceList[i].position.y + v.y)]]

InitMatch ==
    \E pieceList \in MatchPieceLists, target \in MatchTargets :
        /\ pieceList = <<>> \/ SumLen(pieceList) = Len(target)
        /\ call = [fn |-> "checkSolution", pieces |-> pieceList, targetCells |-> target,
                   done |-> FALSE, ret |-> FALSE, shifted |-> FALSE,
                   retBefore |-> FALSE]
        /\ AppConstructed

CallCheckSolution ==
    /\ call.fn = "checkSolution"
    /\ ~call.done
    /\ call' = [call EXCEPT !.done = TRUE,
                            !.ret = checkSolution(call.pieces, call.targetCells)]
    /\ UNCHANGED gameVars

\* Every piece is moved by the same vector and the check is made again
ShiftAndCheckSolution ==
    /\ call.fn = "checkSolution"
    /\ call.done
    /\ ~call.shifted
    /\ \E v \in Shifts :
          LET moved == translateAll(call.pieces, v)
          IN  call' = [call EXCEPT !.pieces = moved,
                                   !.shifted = TRUE,
                                   !.retBefore = call.ret,
                                   !.ret = checkSolution(moved, call.targetCells)]
    /\ UNCHANGED gameVars

NextMatch == CallCheckSolution \/ ShiftAndCheckSolution

SpecMatch == InitMatch /\ [][NextMatch]_vars

MatchDone == call.fn = "checkSolution" /\ call.done

GatesPass(pieceList) ==
    /\ Len(pieceList) = 2
    /\ \A i \in 1..Len(pieceList) : Len(pieceList[i].cells) >= 3

\* A set of cells moved so that its least x and least y are 0
NormalizedSet(cells) ==
    IF cells = {} THEN {}
    ELSE LET minX == Min({c.x : c \in cells})
             minY == Min({c.y : c \in cells})
         IN  {Cell(c.x - minX, c.y - minY) : c \in cells}

AllOccupied(pieceList) == UNION {Occupied(pieceList[i]) : i \in 1..Len(pieceList)}

GeometryMatches(pieceList, targetCells) ==
    NormalizedSet(AllOccupied(pieceList)) = NormalizedSet(CellsOf(targetCells))

Overlap(pieceList) ==
    \E i, j \in 1..Len(pieceList) : i # j /\ Occupied(pieceList[i]) \cap Occupied(pieceList[j]) # {}

\* C6: checkSolution returns false whenever the piece list does not hold
\* exactly two pieces or some piece has fewer than three cells, whatever the
\* geometry; in particular for the empty piece list.
C6_GatesRejected ==
    (MatchDone /\ ~GatesPass(call.pieces)) => call.ret = FALSE

\* C6 witness: three pieces of three cells each whose cells together are
\* exactly the target
C6_Witness ==
    /\ MatchDone
    /\ Len(call.pieces) = 3
    /\ \A i \in 1..3 : Len(call.pieces[i].cells) = 3
    /\ ~Overlap(call.pieces)
    /\ GeometryMatches(call.pieces, call.targetCells)

C8_TranslationInvariant ==
    (MatchDone /\ call.shifted) => call.ret = call.retBefore

\* C8 witness: a solved arrangement is moved and checked again
C8_Witness ==
    /\ MatchDone
    /\ call.shifted
    /\ call.retBefore = TRUE
    /\ \E i \in 1..Len(call.pieces) : call.pieces[i].position.x < 0

\* C9: for a target with distinct cells, checkSolution returns false for
\* every arrangement in which two pieces occupy a common absolute cell.
C9_OverlapNeverSolved ==
    (MatchDone /\ Overlap(call.pieces)
        /\ Cardinality(CellsOf(call.targetCells)) = Len(call.targetCells))
            => call.ret = FALSE

\* C9 witness: two pieces that pass the gates overlap inside the target's
\* outline
C9_Witness ==
    /\ MatchDone
    /\ GatesPass(call.pieces)
    /\ Overlap(call.pieces)
    /\ NormalizedSet(AllOccupied(call.pieces))
          \subseteq NormalizedSet(CellsOf(call.targetCells))

-----------------------------------------------------------------------------
(* src/utils/geometry.ts: the edge codec and the drawn path *)

IsDigit(ch) == \E d \in 1..10 : Digits[d] = ch

DigitValue(ch) == (CHOOSE d \in 1..10 : Digits[d] = ch) - 1

RECURSIVE stringSplit(_, _)
\* s.split(sep) for a one-character separator
stringSplit(s, sep) ==
    IF \A i \in 1..Len(s) : s[i] # sep THEN <<s>>
    ELSE LET i == CHOOSE j \in 1..Len(s) :
                      s[j] = sep /\ \A k \in 1..(j - 1) : s[k] # sep
         IN  <<SubSeq(s, 1, i - 1)>> \o stringSplit(SubSeq(s, i + 1, Len(s)), sep)

RECURSIVE leadingDigits(_, _)
\* the value of the longest run of digits s starts with, after acc
leadingDigits(s, acc) ==
    IF s = <<>> \/ ~IsDigit(Head(s)) THEN acc
    ELSE leadingDigits(Tail(s), 10 * acc + DigitValue(Head(s)))

RECURSIVE trimStart(_)
\* s without its leading blanks
trimStart(s) == IF s # <<>> /\ Head(s) = " " THEN trimStart(Tail(s)) ELSE s

\* Mutant: a leading minus sign is read and dropped
parseInt_IgnoresSign(s) ==
    LET t      == trimStart(s)
        signed == t # <<>> /\ Head(t) \in {"-", "+"}
        rest   == IF signed THEN Tail(t) ELSE t
    IN  IF rest = <<>> \/ ~IsDigit(Head(rest)) THEN NaN
        ELSE leadingDigits(rest, 0)

\* parseInt(s): leading blanks skipped, an optional sign, then digits up to the first other
\* character; NaN when there is no digit to read
parseInt(s) ==
    LET t        == trimStart(s)
        negative == t # <<>> /\ Head(t) = "-"
        signed   == t # <<>> /\ Head(t) \in {"-", "+"}
        rest     == IF signed THEN Tail(t) ELSE t
    IN  IF rest = <<>> \/ ~IsDigit(Head(rest)) THEN NaN
        ELSE IF negative THEN -leadingDigits(rest, 0)
        ELSE leadingDigits(rest, 0)

\* const [x, y, d] = k.split(','); a missing part is undefined
parseEdgeKey(k) ==
    LET parts == stringSplit(k, ",")
    IN  [x        |-> IF Len(parts) >= 1 THEN parseInt(parts[1]) ELSE NaN,
         y        |-> IF Len(parts) >= 2 THEN parseInt(parts[2]) ELSE NaN,
         vertical |-> Len(parts) >= 3 /\ parts[3] = <<"v">>]

\* Mutant: the edge is put on the far side of the line drawn
edgeOfStep_NoShift(p1, p2) ==
    IF p1.x = p2.x
    THEN <<[x |-> p1.x, y |-> Min({p1.y, p2.y}), vertical |-> TRUE]>>
    ELSE IF p1.y = p2.y
    THEN <<[x |-> Min({p1.x, p2.x}), y |-> p1.y, vertical |-> FALSE]>>
    ELSE <<>>

\* The edge between two successive points of a path, if they share a line
edgeOfStep(p1, p2) ==
    IF p1.x = p2.x
    THEN <<[x |-> p1.x - 1, y |-> Min({p1.y, p2.y}), vertical |-> TRUE]>>
    ELSE IF p1.y = p2.y
    THEN <<[x |-> Min({p1.x, p2.x}), y |-> p1.y - 1, vertical |-> FALSE]>>
    ELSE <<>>

RECURSIVE pointsToEdges(_)
\* for (i = 0; i < points.length - 1; i++) { p1 = points[i]; p2 = points[i + 1]; ... }
pointsToEdges(points) ==
    IF Len(points) < 2 THEN <<>>
    ELSE edgeOfStep(points[1], points[2]) \o pointsToEdges(Tail(points))

\* Mutant: Y movement, then X movement
interpolatePoints_YFirst(p1, p2) ==
    LET dx    == p2.x - p1.x
        dy    == p2.y - p1.y
        stepX == IF dx > 0 THEN 1 ELSE -1
        stepY == IF dy > 0 THEN 1 ELSE -1
    IN  IF dx = 0 /\ dy = 0 THEN <<>>
        ELSE [i \in 1..Abs(dy) |-> Cell(p1.x, p1.y + i * stepY)]
             \o [i \in 1..Abs(dx) |-> Cell(p1.x + i * stepX, p2.y)]

\* X movement, then Y movement, one grid point at a time
interpolatePoints(p1, p2) ==
    LET dx    == p2.x - p1.x
        dy    == p2.y - p1.y
        stepX == IF dx > 0 THEN 1 ELSE -1
        stepY == IF dy > 0 THEN 1 ELSE -1
    IN  IF dx = 0 /\ dy = 0 THEN <<>>
        ELSE [i \in 1..Abs(dx) |-> Cell(p1.x + i * stepX, p1.y)]
             \o [i \in 1..Abs(dy) |-> Cell(p2.x, p1.y + i * stepY)]

-----------------------------------------------------------------------------
(* src/client/components/GameCanvas.tsx: helpers *)

\* The centre of the piece's bounding box in absolute grid coordinates,
\* doubled: (min + max) rather than (min + max) / 2, to stay in the integers
getPieceCenter(p) ==
    LET cells == getAbsoluteCells(p)
        xs    == {cells[i].x : i \in 1..Len(cells)}
        ys    == {cells[i].y : i \in 1..Len(cells)}
    IN  IF Len(cells) = 0 THEN Cell(0, 0)
        ELSE Cell(Min(xs) + Max(xs), Min(ys) + Max(ys))

\* Math.round(n2 / 2): the nearest integer, a half rounded up
MathRound(n2) == (n2 + 1) \div 2

\* COLORS.indexOf(color), counted from 0; -1 when absent
indexOfColor(color) ==
    IF \E i \in 1..Len(COLORS) : COLORS[i] = color
    THEN (CHOOSE i \in 1..Len(COLORS) :
              COLORS[i] = color /\ \A j \in 1..(i - 1) : COLORS[j] # color) - 1
    ELSE -1

\* pieces.find(p => p.id === id): the index of the first such piece, 0 if none
findPiece(pieceList, id) ==
    IF \E i \in 1..Len(pieceList) : pieceList[i].id = id
    THEN CHOOSE i \in 1..Len(pieceList) :
             pieceList[i].id = id /\ \A j \in 1..(i - 1) : pieceList[j].id # id
    ELSE 0

-----------------------------------------------------------------------------
(* The game: the client App and its GameCanvas, one action per handler     *)
(*                                                                         *)
(* The levels are those of src/client/constants.ts scaled down: a bar of   *)
(* six cells to be cut in two and stacked into a 3x2 rectangle.  The first *)
(* is a built-in level (no startOffset), the second a level saved by the   *)
(* level builder (startOffset set).                                        *)

MaxHistory == 6

\* The cuts counted in one level
MaxCuts == 2

LEVELS ==
    <<[initialShape |-> rect(6, 1), targetCells |-> rect(3, 2), startOffset |-> None],
      \* like practice-level-3, whose initialShape lists one cell twice
      [initialShape |-> <<Cell(0, 0)>> \o rect(6, 1), targetCells |-> rect(3, 2),
       startOffset |-> Some(Cell(2, 0))]>>

\* The cells the pointer is pressed and released in while moving pieces: one
\* on the right half of the bar, one below its left half
PointerCells == {Cell(6, 0), Cell(3, 1)}

\* The grid intersections the pointer visits while drawing
DrawPoints == {Cell(5, 0), Cell(5, 1)}

\* const activeLevels = [...LEVELS, ...customLevels]
activeLevels == LEVELS \o customLevels

\* activeLevels[levelIndex] || activeLevels[0]
currentLevel ==
    IF levelIndex + 1 \in DOMAIN activeLevels THEN activeLevels[levelIndex + 1]
    ELSE activeLevels[1]

\* The canvas takes input: a player is named, the game is not over, and the
\* win modal does not cover the canvas
CanvasActive ==
    userName # None /\ ~isBuilderOpen /\ ~isGameComplete /\ ~showWinModal

loadLevel(level, levelIdx, resetStats) ==
    LET initialPiece ==
            [id        |-> <<"root-piece">>,
             cells     |-> normalizePiece(level.initialShape).normalized,
             position  |-> IF level.startOffset # None THEN level.startOffset[1]
                           ELSE START_OFFSET,
             rotation  |-> 0,
             isFlipped |-> FALSE,
             color     |-> COLORS[(levelIdx % Len(COLORS)) + 1]]
    IN  /\ pieces' = <<initialPiece>>
        /\ history' = <<(<<initialPiece>>)>>
        /\ historyIndex' = 0
        /\ showWinModal' = FALSE
        /\ drawnEdges' = {}
        /\ cutCount' = IF resetStats THEN 0 ELSE cutCount

\* Mutant: the snapshot is pushed without slicing the history
handleSetPieces_NoTruncate(newPieces) ==
    LET newHistory == Append(history, newPieces)
    IN  /\ Len(newHistory) <= MaxHistory
        /\ history' = newHistory
        /\ historyIndex' = Len(newHistory) - 1
        /\ pieces' = newPieces

\* handleSetPieces(newPieces).  Every caller passes an array it has just
\* built, so `newPieces === pieces` is false and the snapshot is pushed.
handleSetPieces(newPieces) ==
    LET newHistory == Append(SubSeq(history, 1, historyIndex + 1), newPieces)
    IN  /\ Len(newHistory) <= MaxHistory
        /\ history' = newHistory
        /\ historyIndex' = Len(newHistory) - 1
        /\ pieces' = newPieces

handleNameSubmit ==
    /\ userName = None
    /\ userName' = Some("player")
    /\ loadLevel(activeLevels[1], 0, TRUE)
    /\ UNCHANGED <<editorVars, levelIndex, isGameComplete, canvasVars, now, call>>

setMode(m) ==
    /\ CanvasActive
    /\ m # mode
    /\ mode' = m
    /\ UNCHANGED <<appVars, selectedPieceId, dragOffset, dragPosition,
                   dragStartGridPos, isDrawing, lastDrawGridPos, now, call>>

\* The topmost piece with a cell under the pointer: its index, 0 if none
hitPiece(c) ==
    LET hits == {i \in 1..Len(pieces) : c \in Range(getAbsoluteCells(pieces[i]))}
    IN  IF hits = {} THEN 0 ELSE Max(hits)

\* handlePointerDown with the pointer in one of the given cells (for picking
\* a piece) or at one of the given grid intersections (for drawing)
handlePointerDownIn(cells, points) ==
    /\ CanvasActive
    /\ IF mode = "MOVE"
       THEN \E c \in cells :
              LET i == hitPiece(c)
              IN  IF i # 0
                  THEN LET p == pieces[i]
                       IN  /\ selectedPieceId' = Some(p.id)
                           /\ dragOffset' = Some(Cell(c.x - p.position.x,
                                                      c.y - p.position.y))
                           /\ dragPosition' = Some(p.position)
                           /\ dragStartGridPos' = Some(p.position)
                           \* Bring to front
                           /\ handleSetPieces(SubSeq(pieces, 1, i - 1)
                                  \o SubSeq(pieces, i + 1, Len(pieces)) \o <<p>>)
                           /\ UNCHANGED <<isDrawing, lastDrawGridPos>>
                  ELSE /\ selectedPieceId' = None
                       /\ UNCHANGED <<pieces, history, historyIndex, dragOffset,
                                      dragPosition, dragStartGridPos, isDrawing,
                                      lastDrawGridPos>>
       ELSE \E g \in points :
              /\ isDrawing' = TRUE
              /\ lastDrawGridPos' = Some(g)
              /\ UNCHANGED <<pieces, history, historyIndex, selectedPieceId,
                             dragOffset, dragPosition, dragStartGridPos>>
    /\ UNCHANGED <<userName, editorVars, levelIndex, cutCount, drawnEdges, showWinModal,
                   isGameComplete, mode, now, call>>

handlePointerDown == handlePointerDownIn(PointerCells, DrawPoints)

\* Mutant: the move is taken as one step, without interpolation
handlePointerMoveIn_NoInterpolate(cells, points) ==
    /\ CanvasActive
    /\ IF mode = "MOVE" /\ selectedPieceId # None /\ dragOffset # None
       THEN \E c \in cells :
              /\ dragPosition' = Some(Cell(c.x - dragOffset[1].x,
                                           c.y - dragOffset[1].y))
              /\ UNCHANGED <<drawnEdges, lastDrawGridPos>>
       ELSE IF mode \in {"PEN", "ERASER"} /\ isDrawing /\ lastDrawGridPos # None
       THEN \E g \in points :
              LET last  == lastDrawGridPos[1]
                  edges == pointsToEdges(<<last, g>>)
                  keys  == {getEdgeAsKey(edges[i]) : i \in 1..Len(edges)}
              IN  /\ g # last
                  /\ drawnEdges' = IF mode = "PEN" THEN drawnEdges \cup keys
                                   ELSE drawnEdges \ keys
                  /\ lastDrawGridPos' = Some(g)
                  /\ UNCHANGED dragPosition
       ELSE FALSE
    /\ UNCHANGED <<userName, editorVars, levelIndex, pieces, history, historyIndex, cutCount,
                   showWinModal, isGameComplete, mode, selectedPieceId, dragOffset,
                   dragStartGridPos, isDrawing, now, call>>

handlePointerMoveIn(cells, points) ==
    /\ CanvasActive
    /\ IF mode = "MOVE" /\ selectedPieceId # None /\ dragOffset # None
       THEN \E c \in cells :
              /\ dragPosition' = Some(Cell(c.x - dragOffset[1].x,
                                           c.y - dragOffset[1].y))
              /\ UNCHANGED <<drawnEdges, lastDrawGridPos>>
       ELSE IF mode \in {"PEN", "ERASER"} /\ isDrawing /\ lastDrawGridPos # None
       THEN \E g \in points :
              LET last  == lastDrawGridPos[1]
                  path  == interpolatePoints(last, g)
                  edges == pointsToEdges(<<last>> \o path)
                  keys  == {getEdgeAsKey(edges[i]) : i \in 1..Len(edges)}
              IN  /\ g # last
                  /\ drawnEdges' = IF mode = "PEN" THEN drawnEdges \cup keys
                                   ELSE drawnEdges \ keys
                  /\ lastDrawGridPos' = Some(g)
                  /\ UNCHANGED dragPosition
       ELSE FALSE
    /\ UNCHANGED <<userName, editorVars, levelIndex, pieces, history, historyIndex, cutCount,
                   showWinModal, isGameComplete, mode, selectedPieceId, dragOffset,
                   dragStartGridPos, isDrawing, now, call>>

handlePointerMove == handlePointerMoveIn(PointerCells, DrawPoints)

\* The selected piece put at a position
moveSelected(pos) ==
    [i \in 1..Len(pieces) |->
        IF pieces[i].id = selectedPieceId[1]
        THEN [pieces[i] EXCEPT !.position = pos]
        ELSE pieces[i]]

handlePointerUp ==
    /\ CanvasActive
    /\ IF mode = "MOVE" /\ selectedPieceId # None /\ dragPosition # None
       THEN LET updatedPieces == moveSelected(dragPosition[1])
            IN  /\ handleSetPieces(updatedPieces)
                /\ dragOffset' = None
                /\ dragPosition' = None
                /\ dragStartGridPos' = None
                \* if (checkSolution(updatedPieces, targetCells)) onWin()
                /\ showWinModal' =
                       (showWinModal
                           \/ checkSolution(updatedPieces, currentLevel.targetCells))
                /\ UNCHANGED <<isDrawing, lastDrawGridPos>>
       ELSE IF mode \in {"PEN", "ERASER"}
       THEN /\ isDrawing
            /\ isDrawing' = FALSE
            /\ lastDrawGridPos' = None
            /\ UNCHANGED <<pieces, history, historyIndex, showWinModal, dragOffset,
                           dragPosition, dragStartGridPos>>
       ELSE FALSE
    /\ UNCHANGED <<userName, editorVars, levelIndex, cutCount, drawnEdges, isGameComplete,
                   mode, selectedPieceId, now, call>>

\* split.forEach((sp, idx) => sp.color = COLORS[(COLORS.indexOf(p.color) + idx + 1) % COLORS.length])
recolor(split, p) ==
    [k \in 1..Len(split) |->
        [split[k] EXCEPT !.color =
            COLORS[((indexOfColor(p.color) + (k - 1) + 1) % Len(COLORS)) + 1]]]

RECURSIVE cutEach_DropsUnsplit(_, _, _)
\* Mutant: a piece the edges do not split is removed as well
cutEach_DropsUnsplit(pieceList, edges, timestamp) ==
    IF pieceList = <<>> THEN [piecesToRemove |-> {}, piecesToAdd |-> <<>>]
    ELSE LET p     == Head(pieceList)
             split == performCut(p, edges, timestamp)
             rest  == cutEach_DropsUnsplit(Tail(pieceList), edges, timestamp)
         IN  IF Len(split) > 1
             THEN [piecesToRemove |-> {p.id} \cup rest.piecesToRemove,
                   piecesToAdd    |-> recolor(split, p) \o rest.piecesToAdd]
             ELSE [piecesToRemove |-> {p.id} \cup rest.piecesToRemove,
                   piecesToAdd    |-> rest.piecesToAdd]

RECURSIVE cutEach_KeepsSplit(_, _, _)
\* Mutant: a split piece is not put on the list of pieces to remove
cutEach_KeepsSplit(pieceList, edges, timestamp) ==
    IF pieceList = <<>> THEN [piecesToRemove |-> {}, piecesToAdd |-> <<>>]
    ELSE LET p     == Head(pieceList)
             split == performCut(p, edges, timestamp)
             rest  == cutEach_KeepsSplit(Tail(pieceList), edges, timestamp)
         IN  IF Len(split) > 1
             THEN [piecesToRemove |-> rest.piecesToRemove,
                   piecesToAdd    |-> recolor(split, p) \o rest.piecesToAdd]
             ELSE rest

RECURSIVE cutEach(_, _, _)
\* newPiecesList.forEach(p => { const split = performCut(p, edges); ... }):
\* the ids to remove and the pieces to add
cutEach(pieceList, edges, timestamp) ==
    IF pieceList = <<>> THEN [piecesToRemove |-> {}, piecesToAdd |-> <<>>]
    ELSE LET p     == Head(pieceList)
             split == performCut(p, edges, timestamp)
             rest  == cutEach(Tail(pieceList), edges, timestamp)
         IN  IF Len(split) > 1
             THEN [piecesToRemove |-> {p.id} \cup rest.piecesToRemove,
                   piecesToAdd    |-> recolor(split, p) \o rest.piecesToAdd]
             ELSE rest

\* Mutant: the drawn edges are cleared only when a piece was split
executeCut_KeepsEdgesOnMiss ==
    /\ CanvasActive
    /\ drawnEdges # {}
    /\ LET edges == {parseEdgeKey(k) : k \in drawnEdges}
           cut   == cutEach(pieces, edges, now)
           kept  == SelectSeq(pieces, LAMBDA p : p.id \notin cut.piecesToRemove)
           newPiecesList == kept \o cut.piecesToAdd
       IN  IF cut.piecesToAdd # <<>>
           THEN /\ cutCount < MaxCuts
                /\ handleSetPieces(newPiecesList)
                /\ mode' = "MOVE"
                /\ selectedPieceId' = Some(cut.piecesToAdd[Len(cut.piecesToAdd)].id)
                /\ cutCount' = cutCount + 1
           ELSE UNCHANGED <<pieces, history, historyIndex, mode, selectedPieceId,
                            cutCount>>
    /\ drawnEdges' =
           IF cutEach(pieces, {parseEdgeKey(k) : k \in drawnEdges}, now).piecesToAdd
                  # <<>>
           THEN {} ELSE drawnEdges
    /\ UNCHANGED <<userName, editorVars, levelIndex, showWinModal, isGameComplete, dragOffset,
                   dragPosition, dragStartGridPos, isDrawing, lastDrawGridPos,
                   now, call>>

executeCut ==
    /\ CanvasActive
    /\ drawnEdges # {}
    /\ LET edges == {parseEdgeKey(k) : k \in drawnEdges}
           cut   == cutEach(pieces, edges, now)
           kept  == SelectSeq(pieces, LAMBDA p : p.id \notin cut.piecesToRemove)
           newPiecesList == kept \o cut.piecesToAdd
       IN  IF cut.piecesToAdd # <<>>
           THEN /\ cutCount < MaxCuts
                /\ handleSetPieces(newPiecesList)
                /\ mode' = "MOVE"
                /\ selectedPieceId' = Some(cut.piecesToAdd[Len(cut.piecesToAdd)].id)
                /\ cutCount' = cutCount + 1
           ELSE UNCHANGED <<pieces, history, historyIndex, mode, selectedPieceId,
                            cutCount>>
    /\ drawnEdges' = {}
    /\ UNCHANGED <<userName, editorVars, levelIndex, showWinModal, isGameComplete, dragOffset,
                   dragPosition, dragStartGridPos, isDrawing, lastDrawGridPos,
                   now, call>>

\* The rounded distance from the centre of tempPiece's bounding box to the
\* centre of piece's
centerShift(piece, tempPiece) ==
    LET oldCenter        == getPieceCenter(piece)
        newNaturalCenter == getPieceCenter(tempPiece)
    IN  Cell(MathRound(oldCenter.x - newNaturalCenter.x),
             MathRound(oldCenter.y - newNaturalCenter.y))

\* The piece the handlers find: pieces.find(p => p.id === selectedPieceId)
selectedPiece == pieces[findPiece(pieces, selectedPieceId[1])]

\* The rotate and flip buttons are shown in MOVE mode with a piece selected;
\* the handlers return when no piece has the selected id
CanReorient ==
    /\ CanvasActive
    /\ mode = "MOVE"
    /\ selectedPieceId # None
    /\ findPiece(pieces, selectedPieceId[1]) # 0

\* Mutant: the new rotation is not wrapped into 0..359
handleRotate_NoWrap(dir) ==
    /\ CanReorient
    /\ LET piece       == selectedPiece
           newRotation == piece.rotation + (dir * 90)
           offset      == centerShift(piece, [piece EXCEPT !.rotation = newRotation])
           newPieces   ==
               [i \in 1..Len(pieces) |->
                   IF pieces[i].id = selectedPieceId[1]
                   THEN [pieces[i] EXCEPT
                            !.rotation = newRotation,
                            !.position = Cell(pieces[i].position.x + offset.x,
                                              pieces[i].position.y + offset.y)]
                   ELSE pieces[i]]
       IN  handleSetPieces(newPieces)
    /\ UNCHANGED <<userName, editorVars, levelIndex, cutCount, drawnEdges, showWinModal,
                   isGameComplete, canvasVars, now, call>>

handleRotate(dir) ==
    /\ CanReorient
    /\ LET piece       == selectedPiece
           newRotation == (piece.rotation + (dir * 90) + 360) % 360
           offset      == centerShift(piece, [piece EXCEPT !.rotation = newRotation])
           newPieces   ==
               [i \in 1..Len(pieces) |->
                   IF pieces[i].id = selectedPieceId[1]
                   THEN [pieces[i] EXCEPT
                            !.rotation = newRotation,
                            !.position = Cell(pieces[i].position.x + offset.x,
                                              pieces[i].position.y + offset.y)]
                   ELSE pieces[i]]
       IN  handleSetPieces(newPieces)
    /\ UNCHANGED <<userName, editorVars, levelIndex, cutCount, drawnEdges, showWinModal,
                   isGameComplete, canvasVars, now, call>>

handleFlipHorizontal ==
    /\ CanReorient
    /\ LET piece     == selectedPiece
           offset    == centerShift(piece, [piece EXCEPT !.isFlipped = ~piece.isFlipped])
           newPieces ==
               [i \in 1..Len(pieces) |->
                   IF pieces[i].id = selectedPieceId[1]
                   THEN [pieces[i] EXCEPT
                            !.isFlipped = ~pieces[i].isFlipped,
                            !.position  = Cell(pieces[i].position.x + offset.x,
                                               pieces[i].position.y + offset.y)]
                   ELSE pieces[i]]
       IN  handleSetPieces(newPieces)
    /\ UNCHANGED <<userName, editorVars, levelIndex, cutCount, drawnEdges, showWinModal,
                   isGameComplete, canvasVars, now, call>>

\* Vertical flip = horizontal flip + 180 degree rotation
handleFlipVertical ==
    /\ CanReorient
    /\ LET piece        == selectedPiece
           newIsFlipped == ~piece.isFlipped
           newRotation  == (piece.rotation + 180) % 360
           offset       == centerShift(piece, [piece EXCEPT !.isFlipped = newIsFlipped,
                                                            !.rotation = newRotation])
           newPieces    ==
               [i \in 1..Len(pieces) |->
                   IF pieces[i].id = selectedPieceId[1]
                   THEN [pieces[i] EXCEPT
                            !.isFlipped = newIsFlipped,
                            !.rotation  = newRotation,
                            !.position  = Cell(pieces[i].position.x + offset.x,
                                               pieces[i].position.y + offset.y)]
                   ELSE pieces[i]]
       IN  handleSetPieces(newPieces)
    /\ UNCHANGED <<userName, editorVars, levelIndex, cutCount, drawnEdges, showWinModal,
                   isGameComplete, canvasVars, now, call>>

\* The "next level" button of the win modal
handleNextLevel ==
    /\ userName # None
    /\ showWinModal
    /\ IF levelIndex < Len(activeLevels) - 1
       THEN /\ levelIndex' = levelIndex + 1
            /\ loadLevel(activeLevels[levelIndex + 2], levelIndex + 1, TRUE)
            /\ UNCHANGED isGameComplete
       ELSE /\ isGameComplete' = TRUE
            /\ showWinModal' = FALSE
            /\ UNCHANGED <<levelIndex, pieces, history, historyIndex, cutCount,
                           drawnEdges>>
    /\ UNCHANGED <<userName, editorVars, canvasVars, now, call>>

\* The "next level" button of the header, disabled on the last level; it
\* calls handleNextLevel
onNextLevel ==
    /\ CanvasActive
    /\ levelIndex # Len(activeLevels) - 1
    /\ IF levelIndex < Len(activeLevels) - 1
       THEN /\ levelIndex' = levelIndex + 1
            /\ loadLevel(activeLevels[levelIndex + 2], levelIndex + 1, TRUE)
            /\ UNCHANGED isGameComplete
       ELSE /\ isGameComplete' = TRUE
            /\ showWinModal' = FALSE
            /\ UNCHANGED <<levelIndex, pieces, history, historyIndex, cutCount,
                           drawnEdges>>
    /\ UNCHANGED <<userName, editorVars, canvasVars, now, call>>

\* The "previous level" button of the header, disabled on the first level
handlePrevLevel ==
    /\ CanvasActive
    /\ levelIndex # 0
    /\ IF levelIndex > 0
       THEN /\ levelIndex' = levelIndex - 1
            /\ loadLevel(activeLevels[levelIndex], levelIndex - 1, TRUE)
       ELSE UNCHANGED <<levelIndex, pieces, history, historyIndex, cutCount,
                        drawnEdges, showWinModal>>
    /\ UNCHANGED <<userName, editorVars, isGameComplete, canvasVars, now, call>>

\* The "play again" button of the end screen; the canvas is mounted afresh
handleRestartGame ==
    /\ isGameComplete
    /\ levelIndex' = 0
    /\ isGameComplete' = FALSE
    /\ loadLevel(activeLevels[1], 0, TRUE)
    /\ mode' = "PEN"
    /\ selectedPieceId' = None
    /\ dragOffset' = None
    /\ dragPosition' = None
    /\ dragStartGridPos' = None
    /\ isDrawing' = FALSE
    /\ lastDrawGridPos' = None
    /\ UNCHANGED <<userName, editorVars, now, call>>

\* Mutant: undo goes back to the first snapshot
handleUndo_ToFirst ==
    /\ CanvasActive
    /\ historyIndex > 0
    /\ historyIndex' = 0
    /\ pieces' = history[1]
    /\ UNCHANGED <<userName, editorVars, levelIndex, history, cutCount, drawnEdges,
                   showWinModal, isGameComplete, canvasVars, now, call>>

\* Mutant: the pointer moves back but the displayed collection stays
handleUndo_KeepsPieces ==
    /\ CanvasActive
    /\ historyIndex > 0
    /\ historyIndex' = historyIndex - 1
    /\ UNCHANGED <<userName, editorVars, levelIndex, pieces, history, cutCount,
                   drawnEdges, showWinModal, isGameComplete, canvasVars, now, call>>

\* The undo button, enabled when canUndo
handleUndo ==
    /\ CanvasActive
    /\ historyIndex > 0
    /\ historyIndex' = historyIndex - 1
    /\ pieces' = history[historyIndex]
    /\ UNCHANGED <<userName, editorVars, levelIndex, history, cutCount, drawnEdges,
                   showWinModal, isGameComplete, canvasVars, now, call>>

\* The redo button, enabled when canRedo
handleRedo ==
    /\ CanvasActive
    /\ historyIndex < Len(history) - 1
    /\ historyIndex' = historyIndex + 1
    /\ pieces' = history[historyIndex + 2]
    /\ UNCHANGED <<userName, editorVars, levelIndex, history, cutCount, drawnEdges,
                   showWinModal, isGameComplete, canvasVars, now, call>>

\* The reset button: setMode(PEN); resetLevel(), which is
\* loadLevel(currentLevel, levelIndex, false)
handleResetLevel ==
    /\ CanvasActive
    /\ mode' = "PEN"
    /\ loadLevel(currentLevel, levelIndex, FALSE)
    /\ UNCHANGED <<userName, editorVars, levelIndex, isGameComplete,
                   selectedPieceId, dragOffset, dragPosition, dragStartGridPos,
                   isDrawing, lastDrawGridPos, now, call>>

\* The "create" button of the header, shown in editor mode: the builder
\* replaces the canvas, which is mounted afresh when the builder closes
onCreateLevel ==
    /\ CanvasActive
    /\ isEditorMode
    /\ isBuilderOpen' = TRUE
    /\ mode' = "PEN"
    /\ selectedPieceId' = None
    /\ dragOffset' = None
    /\ dragPosition' = None
    /\ dragStartGridPos' = None
    /\ isDrawing' = FALSE
    /\ lastDrawGridPos' = None
    /\ UNCHANGED <<userName, customLevels, isEditorMode, levelIndex, pieces,
                   history, historyIndex, cutCount, drawnEdges, showWinModal,
                   isGameComplete, now, call>>

\* The builder's back button
onCancel ==
    /\ isBuilderOpen
    /\ isBuilderOpen' = FALSE
    /\ UNCHANGED <<userName, customLevels, isEditorMode, levelIndex, pieces,
                   history, historyIndex, cutCount, drawnEdges, showWinModal,
                   isGameComplete, canvasVars, now, call>>

MaxCustomLevels == 1

\* What the builder's grid can hold when "save" is pressed, in the order the
\* cells were painted: modifyCell adds any cell of the grid to either set
BuilderCells ==
    {<<Cell(5, 1), Cell(4, 0), Cell(5, 0)>>,
     <<Cell(3, 1), Cell(4, 1), Cell(6, 1)>>,
     <<Cell(1, 1)>>}

\* handleSaveLevel of the builder, which hands the level to
\* handleSaveCustomLevel of App
handleSaveLevel ==
    /\ isBuilderOpen
    /\ Len(customLevels) < MaxCustomLevels
    /\ \E startRaw \in BuilderCells, targetRaw \in BuilderCells :
          /\ Len(startRaw) # 0
          /\ Len(targetRaw) # 0
          /\ Len(startRaw) = Len(targetRaw)
          /\ LET startNorm  == normalizePiece(startRaw)
                 targetNorm == normalizePiece(targetRaw)
                 newLevel   == [initialShape |-> startNorm.normalized,
                                startOffset  |-> Some(startNorm.offset),
                                targetCells  |-> targetNorm.normalized]
                 updatedCustomLevels == Append(customLevels, newLevel)
                 allLevels  == LEVELS \o updatedCustomLevels
                 newIndex   == Len(allLevels) - 1
             IN  /\ customLevels' = updatedCustomLevels
                 /\ isBuilderOpen' = FALSE
                 /\ levelIndex' = newIndex
                 /\ loadLevel(allLevels[newIndex + 1], newIndex, TRUE)
    /\ UNCHANGED <<userName, isEditorMode, isGameComplete, canvasVars, now, call>>

\* Date.now() moves on
MaxNow == 1

Tick ==
    /\ now < MaxNow
    /\ now' = now + 1
    /\ UNCHANGED <<appVars, canvasVars, call>>

Init ==
    /\ call = [fn |-> "none"]
    /\ AppConstructed

Next ==
    \/ handleNameSubmit /\ UNCHANGED historyVars
    \/ \E m \in {"MOVE", "PEN", "ERASER"} : setMode(m) /\ UNCHANGED historyVars
    \/ handlePointerDown /\ UNCHANGED historyVars
    \/ handlePointerMove /\ UNCHANGED historyVars
    \/ handlePointerUp /\ UNCHANGED historyVars
    \/ executeCut /\ UNCHANGED historyVars
    \/ \E dir \in {1, -1} : handleRotate(dir) /\ UNCHANGED historyVars
    \/ handleFlipHorizontal /\ UNCHANGED historyVars
    \/ handleFlipVertical /\ UNCHANGED historyVars
    \/ handleNextLevel /\ UNCHANGED historyVars
    \/ handleRestartGame /\ UNCHANGED historyVars

Spec == Init /\ [][Next]_vars

\* The arrangement on the canvas is a solution of the current level
Solved == userName # None /\ checkSolution(pieces, currentLevel.targetCells)

\* C10: the level is complete when the pieces form the target: whenever a
\* user action (a drop, a rotation, a flip, a cut) has left the pieces of the
\* level being played in an arrangement for which checkSolution(pieces, target)
\* is true, onWin has been called and the win modal is shown.
C10_WinWhenSolved ==
    (~isGameComplete /\ Solved) => showWinModal

-----------------------------------------------------------------------------
(* The geometry functions examined on their own: SpecGeom                  *)
(*                                                                         *)
(* One call per behaviour: the arguments are drawn in the initial state,   *)
(* the actions apply the function and keep its result.                     *)

MaxCells == 3

MaxPoints == 3

RECURSIVE SeqsUpTo(_, _)
\* All sequences over S of length at most n
SeqsUpTo(S, n) ==
    IF n = 0 THEN {<<>>}
    ELSE LET shorter == SeqsUpTo(S, n - 1)
         IN  shorter \cup {Append(q, e) : q \in shorter, e \in S}

\* Cells on both sides of the origin
GeomCells == {Cell(x, y) : x \in -2..1, y \in -1..2}

\* Cell lists for normalizePiece: any cells, repeats included
NormInputs == SeqsUpTo(GeomCells, MaxCells)

\* Pieces for getAbsoluteCells: an L of four cells, a bar, a single cell off
\* the origin and the same L listed with a repeat, in every orientation
GeomShapes ==
    {<<Cell(0, 0), Cell(1, 0), Cell(2, 0), Cell(0, 1)>>,
     <<Cell(0, 0), Cell(1, 0), Cell(2, 0)>>,
     <<Cell(2, 1)>>,
     <<Cell(0, 0), Cell(1, 0), Cell(2, 0), Cell(0, 1), Cell(0, 0)>>}

GeomPieces ==
    {[id        |-> <<"root-piece">>,
      cells     |-> c,
      position  |-> pos,
      rotation  |-> r,
      isFlipped |-> f,
      color     |-> COLORS[1]] :
        c \in GeomShapes, pos \in {Cell(0, 0), Cell(3, -2), Cell(-11, 10)},
        r \in Rotations, f \in BOOLEAN}

\* Edges for the codec: coordinates of one and two digits, of either sign
CodecEdges ==
    {[x |-> x, y |-> y, vertical |-> v] :
        x \in {-12, -1, 0, 1, 10}, y \in {-10, -2, 0, 3, 21}, v \in BOOLEAN}

\* Keys no edge encodes to: a field missing, a field too many, a coordinate
\* that is not a number or only starts as one, another orientation letter
MalformedKeys ==
    {<<>>,
     <<"1", ",", "2">>,
     <<"1", ",", "2", ",">>,
     <<"1", ",", "2", ",", "v", ",", "3">>,
     <<"a", ",", "b", ",", "v">>,
     <<"1", "x", ",", "2", ",", "v">>,
     <<",", ",", "h">>,
     <<"1", ",", "2", ",", "x">>,
     <<"1", ",", "2", ",", "V">>,
     <<"1", ",", "2", ",", "v", "v">>}

\* Grid points for paths
PathPoints == {Cell(x, y) : x \in 1..3, y \in 1..3}

\* End points for interpolation
EndPoints == {Cell(x, y) : x \in -1..5, y \in -1..5}

InitGeom ==
    /\ AppConstructed
    /\ \/ \E cells \in NormInputs :
            call = [fn |-> "normalizePiece", cells |-> cells, done |-> FALSE,
                    again |-> FALSE]
       \/ \E piece \in GeomPieces :
            call = [fn |-> "getAbsoluteCells", piece |-> piece, done |-> FALSE]
       \/ \E e1, e2 \in CodecEdges :
            call = [fn |-> "getEdgeAsKey", edge |-> e1, other |-> e2, done |-> FALSE]
       \/ \E k \in MalformedKeys :
            call = [fn |-> "parseEdgeKey", key |-> k, done |-> FALSE]
       \/ \E points \in SeqsUpTo(PathPoints, MaxPoints) :
            call = [fn |-> "pointsToEdges", points |-> points, done |-> FALSE]
       \/ \E p1, p2 \in EndPoints :
            call = [fn |-> "interpolatePoints", p1 |-> p1, p2 |-> p2, done |-> FALSE]

CallNormalizePiece ==
    /\ call.fn = "normalizePiece"
    /\ ~call.done
    /\ call' = [fn |-> "normalizePiece", cells |-> call.cells, done |-> TRUE,
                again |-> FALSE, ret |-> normalizePiece(call.cells)]
    /\ UNCHANGED gameVars

\* The result's cells are normalized once more
CallNormalizePieceAgain ==
    /\ call.fn = "normalizePiece"
    /\ call.done
    /\ ~call.again
    /\ call' = [fn |-> "normalizePiece", cells |-> call.cells, done |-> TRUE,
                again |-> TRUE, ret |-> call.ret,
                ret2 |-> normalizePiece(call.ret.normalized)]
    /\ UNCHANGED gameVars

CallGetAbsoluteCells ==
    /\ call.fn = "getAbsoluteCells"
    /\ ~call.done
    /\ call' = [fn |-> "getAbsoluteCells", piece |-> call.piece, done |-> TRUE,
                ret |-> getAbsoluteCells(call.piece)]
    /\ UNCHANGED gameVars

\* Two edges are encoded
CallGetEdgeAsKey ==
    /\ call.fn = "getEdgeAsKey"
    /\ ~call.done
    /\ call' = [fn |-> "getEdgeAsKey", edge |-> call.edge, other |-> call.other,
                done |-> TRUE, key |-> getEdgeAsKey(call.edge),
                otherKey |-> getEdgeAsKey(call.other)]
    /\ UNCHANGED gameVars

\* A key is decoded: the key of the edge just encoded, or a malformed one
CallParseEdgeKey ==
    /\ \/ /\ call.fn = "getEdgeAsKey"
          /\ call.done
          /\ call' = [fn |-> "parseEdgeKey", key |-> call.key, done |-> TRUE,
                      edge |-> call.edge, encoded |-> TRUE,
                      ret |-> parseEdgeKey(call.key)]
       \/ /\ call.fn = "parseEdgeKey"
          /\ ~call.done
          /\ call' = [fn |-> "parseEdgeKey", key |-> call.key, done |-> TRUE,
                      encoded |-> FALSE, ret |-> parseEdgeKey(call.key)]
    /\ UNCHANGED gameVars

CallPointsToEdges ==
    /\ call.fn = "pointsToEdges"
    /\ ~call.done
    /\ call' = [fn |-> "pointsToEdges", points |-> call.points, done |-> TRUE,
                ret |-> pointsToEdges(call.points)]
    /\ UNCHANGED gameVars

CallInterpolatePoints ==
    /\ call.fn = "interpolatePoints"
    /\ ~call.done
    /\ call' = [fn |-> "interpolatePoints", p1 |-> call.p1, p2 |-> call.p2,
                done |-> TRUE, ret |-> interpolatePoints(call.p1, call.p2)]
    /\ UNCHANGED gameVars

NextGeom ==
    \/ CallNormalizePiece
    \/ CallNormalizePieceAgain
    \/ CallGetAbsoluteCells
    \/ CallGetEdgeAsKey
    \/ CallParseEdgeKey
    \/ CallPointsToEdges
    \/ CallInterpolatePoints

SpecGeom == InitGeom /\ [][NextGeom]_vars

NormDone == call.fn = "normalizePiece" /\ call.done

\* p is the least corner of the cells: on the least column and the least row
LeastCorner(p, cells) ==
    /\ \E i \in 1..Len(cells) : cells[i].x = p.x
    /\ \E i \in 1..Len(cells) : cells[i].y = p.y
    /\ \A i \in 1..Len(cells) : p.x <= cells[i].x /\ p.y <= cells[i].y

\* C11: normalizePiece returns offset = (min x, min y) over the cells and
\* normalized[i] = cells[i] - offset, and ([], (0,0)) for an empty list; so
\* the normalized cells have least x 0 and least y 0, shifted back by the
\* offset they are the original cells, and normalizing them again returns
\* them unchanged with offset (0,0).
C11_NormalizeContract ==
    NormDone =>
        LET cells == call.cells
            r     == call.ret
        IN  IF cells = <<>>
            THEN r = [normalized |-> <<>>, offset |-> Cell(0, 0)]
            ELSE /\ LeastCorner(r.offset, cells)
                 /\ Len(r.normalized) = Len(cells)
                 /\ \A i \in 1..Len(cells) :
                        r.normalized[i] = Cell(cells[i].x - r.offset.x,
                                               cells[i].y - r.offset.y)
                 /\ LeastCorner(Cell(0, 0), r.normalized)
                 /\ {Cell(c.x + r.offset.x, c.y + r.offset.y) :
                        c \in Range(r.normalized)} = Range(cells)
                 /\ call.again =>
                        call.ret2 = [normalized |-> r.normalized,
                                     offset |-> Cell(0, 0)]

\* C11 witness: cells off the origin on both axes, the least column and the
\* least row set by different cells, normalized and normalized again
C11_Witness ==
    /\ NormDone
    /\ call.again
    /\ Len(call.cells) = 3
    /\ call.ret.offset.x < 0
    /\ call.ret.offset.y > 0
    /\ \A i \in 1..Len(call.cells) : call.cells[i] # call.ret.offset

AbsDone == call.fn = "getAbsoluteCells" /\ call.done

\* Where a local cell lies on the grid, written out for each orientation:
\* x negated if the piece is flipped, then the quarter turns
\* (x,y) -> (-y,x), then the position added
ReferenceAbsolute(piece, c) ==
    LET fx == IF piece.isFlipped THEN -c.x ELSE c.x
        turned == CASE piece.rotation = 0   -> Cell(fx, c.y)
                    [] piece.rotation = 90  -> Cell(-c.y, fx)
                    [] piece.rotation = 180 -> Cell(-fx, -c.y)
                    [] piece.rotation = 270 -> Cell(c.y, -fx)
    IN  Cell(turned.x + piece.position.x, turned.y + piece.position.y)

\* C12: getAbsoluteCells maps each local cell by the horizontal flip
\* (x -> -x) first if isFlipped, then the clockwise rotation (x,y) -> (-y,x)
\* (rotation/90) mod 4 times, then adding position, for every rotation in
\* {0, 90, 180, 270} and both flip states.
C12_AbsoluteCellsReference ==
    AbsDone =>
        /\ Len(call.ret) = Len(call.piece.cells)
        /\ \A i \in 1..Len(call.ret) :
               call.ret[i] = ReferenceAbsolute(call.piece, call.piece.cells[i])

\* C12 witness: a flipped L turned a quarter, where flipping first and
\* flipping last differ
C12_Witness ==
    /\ AbsDone
    /\ call.piece.isFlipped
    /\ call.piece.rotation = 90
    /\ Len(call.piece.cells) = 4
    /\ call.piece.position = Cell(3, -2)
    /\ call.ret[3] = Cell(3, -4)

\* A quarter turn back: (x,y) -> (y,-x)
rotateBack(p) == [x |-> p.y, y |-> -p.x]

RECURSIVE rotateBackTimes(_, _)
rotateBackTimes(p, n) == IF n <= 0 THEN p ELSE rotateBackTimes(rotateBack(p), n - 1)

\* The position subtracted, the quarter turns taken back, the flip undone
InverseTransform(piece, abs) ==
    LET local    == Cell(abs.x - piece.position.x, abs.y - piece.position.y)
        unturned == rotateBackTimes(local, (piece.rotation \div 90) % 4)
    IN  IF piece.isFlipped THEN Cell(-unturned.x, unturned.y) ELSE unturned

\* C13: subtracting position from each absolute cell, rotating back and
\* undoing the flip recovers the original local cells; so distinct local
\* cells have distinct absolute cells, and four applications of rotatePoint
\* return the original point.
C13_TransformInvertible ==
    AbsDone =>
        LET cells == call.piece.cells
        IN  /\ \A i \in 1..Len(cells) :
                   InverseTransform(call.piece, call.ret[i]) = cells[i]
            /\ \A i, j \in 1..Len(cells) :
                   cells[i] # cells[j] => call.ret[i] # call.ret[j]
            /\ \A i \in 1..Len(cells) :
                   rotatePoint(rotatePoint(rotatePoint(rotatePoint(cells[i]))))
                       = cells[i]

\* C13 witness: a flipped piece turned three quarters, away from the origin
C13_Witness ==
    /\ AbsDone
    /\ call.piece.isFlipped
    /\ call.piece.rotation = 270
    /\ call.piece.position = Cell(-11, 10)
    /\ Cardinality(Range(call.piece.cells)) = 4
    /\ Cardinality(Range(call.ret)) = 4

EncodeDone == call.fn = "getEdgeAsKey" /\ call.done

\* The key decoded is the key an edge was encoded to
RoundTripDone == call.fn = "parseEdgeKey" /\ call.done /\ call.encoded

\* C14: for every GridEdge e with integer x and y (negative values included)
\* and either orientation, parseEdgeKey(getEdgeAsKey(e)) equals e, and two
\* edges have the same key only if they are equal.
C14_EdgeCodecRoundTrip ==
    /\ RoundTripDone => call.ret = call.edge
    /\ EncodeDone => (call.key = call.otherKey => call.edge = call.other)

\* C14 witness: a horizontal edge with a negative two-digit x is encoded and
\* decoded
C14_Witness ==
    /\ RoundTripDone
    /\ call.edge = [x |-> -12, y |-> 21, vertical |-> FALSE]
    /\ call.key = <<"-", "1", "2", ",", "2", "1", ",", "h">>

\* A key given to parseEdgeKey as it stands, not one just encoded
DecodeDone == call.fn = "parseEdgeKey" /\ call.done /\ ~call.encoded

\* An optional minus sign and then digits only
IsNumeral(s) ==
    LET body == IF s # <<>> /\ Head(s) = "-" THEN Tail(s) ELSE s
    IN  body # <<>> /\ \A i \in 1..Len(body) : IsDigit(body[i])

\* Exactly three fields: two numerals and the letter v or h
WellFormedKey(k) ==
    LET parts == stringSplit(k, ",")
    IN  /\ Len(parts) = 3
        /\ IsNumeral(parts[1])
        /\ IsNumeral(parts[2])
        /\ parts[3] \in {<<"v">>, <<"h">>}

\* C15: decoding a malformed edge key (missing fields, non-numeric
\* coordinates, an orientation letter other than v or h) yields something
\* clearly distinguishable from an edge (here: a coordinate that is not a
\* number) and never a GridEdge value.
C15_MalformedKeyRejected ==
    (DecodeDone /\ ~WellFormedKey(call.key)) =>
        (call.ret.x = NaN \/ call.ret.y = NaN)

PathDone == call.fn = "pointsToEdges" /\ call.done

\* The pair (points[i], points[i+1]) lies on one grid line
OnOneLine(points, i) ==
    points[i].x = points[i + 1].x \/ points[i].y = points[i + 1].y

\* The edge the pair stands for
ExpectedEdge(p1, p2) ==
    IF p1.x = p2.x
    THEN [x |-> p1.x - 1, y |-> IF p1.y <= p2.y THEN p1.y ELSE p2.y,
          vertical |-> TRUE]
    ELSE [x |-> IF p1.x <= p2.x THEN p1.x ELSE p2.x, y |-> p1.y - 1,
          vertical |-> FALSE]

\* C16: pointsToEdges emits, in order, one edge per consecutive pair
\* (p1,p2) of the path: (p1.x-1, min(p1.y,p2.y), vertical) when p1.x = p2.x,
\* (min(p1.x,p2.x), p1.y-1, horizontal) when p1.y = p2.y, and no edge for a
\* diagonal pair; [(2,2),(2,3)] gives [(1,2,vertical)].
C16_PointsToEdges ==
    PathDone =>
        LET points == call.points
            pairs  == 1..(Len(points) - 1)
            \* the place in the result of the edge of pair i
            place(i) == Cardinality({j \in pairs : j <= i /\ OnOneLine(points, j)})
        IN  /\ Len(call.ret) = Cardinality({i \in pairs : OnOneLine(points, i)})
            /\ \A i \in pairs :
                   OnOneLine(points, i) =>
                       call.ret[place(i)] = ExpectedEdge(points[i], points[i + 1])
            /\ points = <<Cell(2, 2), Cell(2, 3)>> =>
                   call.ret = <<[x |-> 1, y |-> 2, vertical |-> TRUE]>>

\* C16 witness: a path of a diagonal pair and then a pair along a row
C16_Witness ==
    /\ PathDone
    /\ call.points = <<Cell(1, 1), Cell(2, 2), Cell(3, 2)>>
    /\ call.ret = <<[x |-> 2, y |-> 1, vertical |-> FALSE]>>

InterpolateDone == call.fn = "interpolatePoints" /\ call.done

\* p and q are one unit step apart along one axis
UnitStep(p, q) ==
    \/ p.y = q.y /\ (q.x = p.x + 1 \/ q.x = p.x - 1)
    \/ p.x = q.x /\ (q.y = p.y + 1 \/ q.y = p.y - 1)

-----------------------------------------------------------------------------
(* Piece identity: SpecIds                                                 *)
(*                                                                         *)
(* The game of one player who draws, cuts, moves, undoes, redoes and       *)
(* resets, with the clock running.  `created` logs the id given to each    *)
(* piece object as it is constructed and put in the collection: the root   *)
(* piece by loadLevel, the components by executeCut.                       *)

MaxCreated == 5

\* The ids of the pieces in ps are appended to the log
Constructs(ps) ==
    /\ Len(created) + Len(ps) <= MaxCreated
    /\ created' = created \o [i \in 1..Len(ps) |-> ps[i].id]

\* The pieces executeCut is about to add to the collection
piecesToAdd == cutEach(pieces, {parseEdgeKey(k) : k \in drawnEdges}, now).piecesToAdd

InitIds ==
    /\ call = [fn |-> "none"]
    /\ AppConstructed

NextIds ==
    \/ handleNameSubmit /\ Constructs(pieces') /\ UNCHANGED lastStep
    \/ handlePointerDown /\ UNCHANGED historyVars
    \/ handlePointerMove /\ UNCHANGED historyVars
    \/ handlePointerUp /\ UNCHANGED historyVars
    \/ executeCut /\ Constructs(piecesToAdd) /\ UNCHANGED lastStep
    \/ handleUndo /\ UNCHANGED historyVars
    \/ handleRedo /\ UNCHANGED historyVars
    \/ handleResetLevel /\ Constructs(pieces') /\ UNCHANGED lastStep
    \/ Tick /\ UNCHANGED historyVars

SpecIds == InitIds /\ [][NextIds]_vars

\* C18: piece ids are unique and never reused: over any sequence of level
\* loads, resets, cuts, undos and redos, no two distinct pieces ever created
\* (pieces since destroyed by a cut, an undo or a level reset included) carry
\* the same id.
C18_IdsNeverReused ==
    \A i, j \in 1..Len(created) : i # j => created[i] # created[j]

-----------------------------------------------------------------------------
(* The game with the level builder: SpecEditor                             *)
(*                                                                         *)
(* The page is opened in editor mode; the player may save a custom level   *)
(* and play it.                                                            *)

InitEditor ==
    /\ call = [fn |-> "none"]
    /\ AppConstructedWith(TRUE)

NextEditor ==
    \/ handleNameSubmit /\ UNCHANGED historyVars
    \/ onCreateLevel /\ UNCHANGED historyVars
    \/ onCancel /\ UNCHANGED historyVars
    \/ handleSaveLevel /\ UNCHANGED historyVars
    \/ handlePointerDown /\ UNCHANGED historyVars
    \/ handlePointerMove /\ UNCHANGED historyVars
    \/ handlePointerUp /\ UNCHANGED historyVars
    \/ executeCut /\ UNCHANGED historyVars
    \/ handleUndo /\ UNCHANGED historyVars
    \/ handleRedo /\ UNCHANGED historyVars

SpecEditor == InitEditor /\ [][NextEditor]_vars

\* C19: in every reachable game state (any built-in or custom level, after
\* any sequence of moves, rotations, flips, cuts, undos and redos) every
\* piece in the collection has a non-empty cell list that is connected under
\* 4-directional adjacency in its own local frame.
C19_PiecesConnected ==
    \A i \in 1..Len(pieces) :
        /\ pieces[i].cells # <<>>
        /\ Connected4(CellsOf(pieces[i].cells))

-----------------------------------------------------------------------------
(* Turning pieces: SpecTurn                                                *)
(*                                                                         *)
(* The game of one player on the first level who draws and cuts, turns     *)
(* the selected piece with the rotate and flip buttons, undoes, redoes     *)
(* and resets.  The pointer is used for drawing only: pieces are not       *)
(* dragged here (dragging is part of Spec).                                *)

InitTurn ==
    /\ call = [fn |-> "none"]
    /\ AppConstructed

NextTurn ==
    \/ handleNameSubmit /\ UNCHANGED historyVars
    \/ mode = "PEN" /\ handlePointerDown /\ UNCHANGED historyVars
    \/ mode = "PEN" /\ handlePointerMove /\ UNCHANGED historyVars
    \/ mode = "PEN" /\ handlePointerUp /\ UNCHANGED historyVars
    \/ executeCut /\ UNCHANGED historyVars
    \/ \E dir \in {1, -1} : handleRotate(dir) /\ UNCHANGED historyVars
    \/ handleFlipHorizontal /\ UNCHANGED historyVars
    \/ handleFlipVertical /\ UNCHANGED historyVars
    \/ handleUndo /\ UNCHANGED historyVars
    \/ handleRedo /\ UNCHANGED historyVars
    \/ handleResetLevel /\ UNCHANGED historyVars

SpecTurn == InitTurn /\ [][NextTurn]_vars

\* C20: in every reachable game state every piece's rotation is one of 0,
\* 90, 180, 270: rotating left or right and flipping vertically, from any
\* state and in any order, never produce a negative rotation or one of 360
\* or more.
C20_RotationInRange ==
    \A i \in 1..Len(pieces) : pieces[i].rotation \in Rotations

\* The rotation the piece with this id has in the k-th snapshot, NaN if the
\* snapshot has no such piece
rotationIn(k, id) ==
    LET j == findPiece(history[k], id)
    IN  IF j = 0 THEN NaN ELSE history[k][j].rotation

\* C20 witness: a piece turned left from rotation 0 to 270 (wrapping below
\* zero) and then right from 270 to 0 (wrapping at 360)
C20_Witness ==
    /\ historyIndex >= 2
    /\ pieces = history[historyIndex + 1]
    /\ \E i \in 1..Len(pieces) :
          /\ rotationIn(historyIndex - 1, pieces[i].id) = 0
          /\ rotationIn(historyIndex, pieces[i].id) = 270
          /\ pieces[i].rotation = 0
          /\ pieces[i].isFlipped =
                 history[historyIndex - 1][findPiece(history[historyIndex - 1],
                                                     pieces[i].id)].isFlipped

-----------------------------------------------------------------------------
(* Steps of the game, seen one at a time                                   *)
(*                                                                         *)
(* `lastStep` remembers which handler ran last, the state it ran in, and   *)
(* the handler and the collection of the step before it.  The              *)
(* specifications below set it; the handlers do not know it.               *)

Ran(op) ==
    lastStep' = [op              |-> op,
                 pieces          |-> pieces,
                 history         |-> history,
                 historyIndex    |-> historyIndex,
                 drawnEdges      |-> drawnEdges,
                 mode            |-> mode,
                 selectedPieceId |-> selectedPieceId,
                 isDrawing       |-> isDrawing,
                 lastDrawGridPos |-> lastDrawGridPos,
                 now             |-> now,
                 prevOp          |-> lastStep.op,
                 prevPieces      |-> IF lastStep.op = "none" THEN <<>>
                                     ELSE lastStep.pieces,
                 prevHistory     |-> IF lastStep.op = "none" THEN <<>>
                                     ELSE lastStep.history]

-----------------------------------------------------------------------------
(* Cutting in the game: SpecCutting                                        *)
(*                                                                         *)
(* One player on the first level draws, cuts, switches between the pen     *)
(* and moving, and drags pieces by one cell, so that a second cut meets a  *)
(* collection of several pieces.                                           *)

\* The cells the pointer is pressed and released in: the two cells beside
\* the drawn edge
CutPointerCells == {Cell(5, 0), Cell(4, 0)}

InitCutting ==
    /\ call = [fn |-> "none"]
    /\ AppConstructed

NextCutting ==
    \/ handleNameSubmit /\ Ran("handleNameSubmit") /\ UNCHANGED created
    \/ \E m \in {"MOVE", "PEN"} : setMode(m) /\ Ran("setMode") /\ UNCHANGED created
    \/ handlePointerDownIn(CutPointerCells, DrawPoints)
          /\ Ran("handlePointerDown") /\ UNCHANGED created
    \/ handlePointerMoveIn(CutPointerCells, DrawPoints)
          /\ Ran("handlePointerMove") /\ UNCHANGED created
    \/ handlePointerUp /\ Ran("handlePointerUp") /\ UNCHANGED created
    \/ executeCut /\ Ran("executeCut") /\ UNCHANGED created

SpecCutting == InitCutting /\ [][NextCutting]_vars

CutRan == lastStep.op = "executeCut"

\* The edges the last cut was made with
lastEdges == {parseEdgeKey(k) : k \in lastStep.drawnEdges}

\* performCut returned a single component for the piece
Unsplit(p) == Len(performCut(p, lastEdges, lastStep.now)) = 1

\* C21: executeCut keeps every piece that the drawn edges do not split: when
\* performCut returns a single component for a piece, that piece stays in the
\* collection with its id, cells, position, rotation and flip state
\* unchanged, and if no piece is split the piece collection and the undo
\* history are left unchanged.
C21_UnsplitPiecesKept ==
    CutRan =>
        LET before == lastStep.pieces
        IN  /\ \A i \in 1..Len(before) :
                  Unsplit(before[i]) => before[i] \in Range(pieces)
            /\ (\A i \in 1..Len(before) : Unsplit(before[i])) =>
                  /\ pieces = before
                  /\ history = lastStep.history
                  /\ historyIndex = lastStep.historyIndex

\* C21 witness: a cut of a collection of two pieces that split one of them
\* and not the other
C21_Witness ==
    /\ CutRan
    /\ Len(lastStep.pieces) = 2
    /\ \E i, j \in 1..2 :
          /\ Unsplit(lastStep.pieces[i])
          /\ ~Unsplit(lastStep.pieces[j])
          /\ lastStep.pieces[i] \in Range(pieces)
    /\ Len(pieces) = 3

\* A cut of a collection of two pieces that split neither
NoSplitCut ==
    /\ CutRan
    /\ Len(lastStep.pieces) = 2
    /\ \A i \in 1..2 : Unsplit(lastStep.pieces[i])

\* C22: the cut set is consumed at most once: after every executeCut with a
\* non-empty cut set, whether or not any piece was split, the set of drawn
\* edges is empty, so the same drawn edges are never applied by a second cut;
\* executeCut with an empty cut set changes nothing (it cannot take a step).
C22_CutSetConsumed ==
    /\ CutRan => /\ lastStep.drawnEdges # {}
                 /\ drawnEdges = {}
                 /\ lastStep.prevOp # "executeCut"
    /\ drawnEdges = {} => ~ENABLED executeCut

\* C22 witness: a cut with drawn edges that split no piece, after which the
\* cut set is empty
C22_Witness ==
    /\ NoSplitCut
    /\ lastStep.drawnEdges # {}
    /\ drawnEdges = {}

\* Id a is a proper prefix of id b: b names a piece cut out of a
IsAncestorId(a, b) == Len(a) < Len(b) /\ SubSeq(b, 1, Len(a)) = a

idsOf(pieceList) == {pieceList[i].id : i \in 1..Len(pieceList)}

\* The collection holds no piece together with a piece cut out of it, and
\* holds all the cells of the level
WholeCollection(pieceList) ==
    /\ \A a, b \in idsOf(pieceList) : ~IsAncestorId(a, b)
    /\ SumLen(pieceList) = Len(currentLevel.initialShape)

\* The components performCut made of a piece at the last cut
lastComponents(p) == performCut(p, lastEdges, lastStep.now)

\* C23: a cut is applied atomically: executeCut changes the piece collection
\* in one update in which every split piece is removed and all of its
\* components are added, so no observable state and no history snapshot
\* contains a split piece together with any of its components, or lacks both
\* the piece and its components.
C23_CutAtomic ==
    /\ userName # None =>
          /\ WholeCollection(pieces)
          /\ \A k \in 1..Len(history) : WholeCollection(history[k])
    /\ (CutRan /\ pieces # lastStep.pieces) =>
          LET before == lastStep.pieces
              split  == {i \in 1..Len(before) : ~Unsplit(before[i])}
          IN  /\ \A i \in split :
                    /\ before[i].id \notin idsOf(pieces)
                    /\ \A c \in Range(lastComponents(before[i])) :
                          \E q \in Range(pieces) :
                              /\ q.id = c.id
                              /\ q.cells = c.cells
                              /\ q.position = c.position
              /\ \A q \in Range(pieces) :
                    \/ q \in Range(before)
                    \/ \E i \in split : q.id \in idsOf(lastComponents(before[i]))
              \* one update: one snapshot more, holding the new collection
              /\ history = Append(SubSeq(lastStep.history, 1,
                                         lastStep.historyIndex + 1), pieces)
              /\ historyIndex = lastStep.historyIndex + 1

\* C23 witness: a cut has replaced one piece of a two-piece collection by
\* its two components and kept the other piece
C23_Witness ==
    /\ CutRan
    /\ Len(lastStep.pieces) = 2
    /\ Len(pieces) = 3
    /\ \E i \in 1..2 :
          /\ ~Unsplit(lastStep.pieces[i])
          /\ lastStep.pieces[i].id \notin idsOf(pieces)
          /\ idsOf(lastComponents(lastStep.pieces[i])) \subseteq idsOf(pieces)
    /\ history[Len(history)] = pieces

-----------------------------------------------------------------------------
(* The undo history: SpecUndo                                              *)
(*                                                                         *)
(* One player on the first level draws, cuts, presses, drags and releases  *)
(* pieces, undoes, redoes and resets the level.                            *)

InitUndo ==
    /\ call = [fn |-> "none"]
    /\ AppConstructed

NextUndo ==
    \/ handleNameSubmit /\ Ran("handleNameSubmit") /\ UNCHANGED created
    \/ handlePointerDown /\ Ran("handlePointerDown") /\ UNCHANGED created
    \/ handlePointerMove /\ Ran("handlePointerMove") /\ UNCHANGED created
    \/ handlePointerUp /\ Ran("handlePointerUp") /\ UNCHANGED created
    \/ executeCut /\ Ran("executeCut") /\ UNCHANGED created
    \/ handleUndo /\ Ran("handleUndo") /\ UNCHANGED created
    \/ handleRedo /\ Ran("handleRedo") /\ UNCHANGED created
    \/ handleResetLevel /\ Ran("handleResetLevel") /\ UNCHANGED created

SpecUndo == InitUndo /\ [][NextUndo]_vars

\* The last step loaded a level
LoadRan == lastStep.op \in {"handleNameSubmit", "handleResetLevel"}

\* C24: history pointer invariant: in every state after a level has been
\* loaded, 0 <= historyIndex < history.length and the displayed piece
\* collection equals history[historyIndex], after any sequence of piece
\* updates, undos, redos and level loads; a level load resets history to the
\* single snapshot holding the root piece with historyIndex 0.
C24_HistoryPointer ==
    /\ userName # None =>
          /\ 0 <= historyIndex
          /\ historyIndex < Len(history)
          /\ pieces = history[historyIndex + 1]
    /\ LoadRan =>
          /\ historyIndex = 0
          /\ history = <<pieces>>
          /\ Len(pieces) = 1
          /\ pieces[1].id = <<"root-piece">>
          /\ pieces[1].cells = normalizePiece(currentLevel.initialShape).normalized

\* C24 witness: two undos in a row have left the pointer inside a history
\* of at least four snapshots, two of them ahead of it
C24_Witness ==
    /\ lastStep.op = "handleUndo"
    /\ lastStep.prevOp = "handleUndo"
    /\ historyIndex >= 1
    /\ historyIndex + 2 < Len(history)
    /\ pieces = history[historyIndex + 1]

\* A level was reset after cuts and moves had filled the history
ResetAfterPlay ==
    /\ lastStep.op = "handleResetLevel"
    /\ Len(lastStep.history) >= 3
    /\ history = <<pieces>>

UndoRan == lastStep.op = "handleUndo"

RedoRan == lastStep.op = "handleRedo"

\* The step before the last one was an update that handleSetPieces recorded:
\* it put a snapshot of its result at the end of the history
UpdateRanBefore ==
    /\ lastStep.prevOp \in {"handlePointerDown", "handlePointerUp", "executeCut"}
    /\ lastStep.history # lastStep.prevHistory
    /\ lastStep.history[Len(lastStep.history)] = lastStep.pieces

\* C25: undo and redo are inverse: after an update recorded by
\* handleSetPieces, undo restores the piece collection exactly as it was
\* before that update and a following redo restores it exactly as it was
\* after; undo at historyIndex 0 and redo at the last snapshot change nothing
\* (they cannot take a step).
C25_UndoRedoInverse ==
    /\ (UndoRan /\ UpdateRanBefore) => pieces = lastStep.prevPieces
    /\ (RedoRan /\ lastStep.prevOp = "handleUndo") => pieces = lastStep.prevPieces
    /\ (UndoRan \/ RedoRan) => history = lastStep.history
    /\ historyIndex = 0 => ~ENABLED handleUndo
    /\ historyIndex = Len(history) - 1 => ~ENABLED handleRedo

\* C25 witness: a redo directly after an undo has brought back the
\* collection the undo had replaced, which holds the two pieces of a cut
C25_Witness ==
    /\ RedoRan
    /\ lastStep.prevOp = "handleUndo"
    /\ pieces = lastStep.prevPieces
    /\ pieces # lastStep.pieces
    /\ Len(pieces) = 2

\* An undo directly after a recorded update has brought back the collection
\* as it was before the update
UndoAfterUpdate ==
    /\ UndoRan
    /\ UpdateRanBefore
    /\ pieces = lastStep.prevPieces
    /\ pieces # lastStep.pieces

\* The last step was an update that handleSetPieces recorded
UpdateRan ==
    /\ lastStep.op \in {"handlePointerDown", "handlePointerUp", "executeCut"}
    /\ history # lastStep.history

\* The snapshots that were ahead of the pointer when the last step began
undone == SubSeq(lastStep.history, lastStep.historyIndex + 2, Len(lastStep.history))

\* C26: a new piece update made after one or more undos discards the undone
\* snapshots: history is truncated to the entries up to historyIndex before
\* the new snapshot is pushed, so afterwards the new snapshot is the last
\* entry, redo is unavailable, and the discarded states are never shown again
\* by undo or redo.
C26_UpdateDiscardsUndone ==
    UpdateRan =>
        /\ history = Append(SubSeq(lastStep.history, 1, lastStep.historyIndex + 1),
                            pieces)
        /\ historyIndex = Len(history) - 1
        /\ ~ENABLED handleRedo
        \* what undo and redo can show is the kept entries and the new one
        /\ \A k \in 1..Len(history) :
              \/ k <= lastStep.historyIndex + 1 /\ history[k] = lastStep.history[k]
              \/ k = Len(history) /\ history[k] = pieces

\* C26 witness: an update made two undos back has replaced two undone
\* snapshots, which are no longer in the history
C26_Witness ==
    /\ UpdateRan
    /\ Len(undone) = 2
    /\ Len(history) = lastStep.historyIndex + 2
    /\ \A k \in 1..Len(undone) : undone[k] \notin Range(history)

\* C30: handleSetPieces records a history snapshot only when the piece
\* collection changes: an interaction that leaves every piece's cells,
\* position, rotation and flip state and the order of the collection
\* unchanged (pressing and releasing on a piece without dragging it, or
\* rotating with no piece selected) adds no undo step and leaves
\* historyIndex unchanged.
C30_NoStepWithoutChange ==
    (/\ lastStep.op \in {"handlePointerDown", "handlePointerUp"}
     /\ pieces = lastStep.pieces)
        => /\ history = lastStep.history
           /\ historyIndex = lastStep.historyIndex

-----------------------------------------------------------------------------
(* Playing through the levels: SpecLevels                                  *)
(*                                                                         *)
(* One player steps through the levels with the header's buttons, draws,   *)
(* cuts, drags pieces, undoes and redoes.                                  *)

InitLevels ==
    /\ call = [fn |-> "none"]
    /\ AppConstructed

NextLevels ==
    \/ handleNameSubmit /\ UNCHANGED historyVars
    \/ onNextLevel /\ UNCHANGED historyVars
    \/ handlePrevLevel /\ UNCHANGED historyVars
    \/ handlePointerDown /\ UNCHANGED historyVars
    \/ handlePointerMove /\ UNCHANGED historyVars
    \/ handlePointerUp /\ UNCHANGED historyVars
    \/ executeCut /\ UNCHANGED historyVars
    \/ handleUndo /\ UNCHANGED historyVars
    \/ handleRedo /\ UNCHANGED historyVars

SpecLevels == InitLevels /\ [][NextLevels]_vars

\* C27: within one level the total number of cells over all pieces in the
\* collection is constant and equal to the cell count of the level's initial
\* shape, in every state reachable by any sequence of moves, rotations,
\* flips, cuts (including a cut that splits several pieces at once), undos
\* and redos.
C27_CellCountConstant ==
    userName # None => SumLen(pieces) = Len(currentLevel.initialShape)

-----------------------------------------------------------------------------
(* Rotating a piece: SpecRotate                                            *)
(*                                                                         *)
(* One player on the first level picks the piece up and rotates it, or     *)
(* cuts it and rotates the selected part.  Nothing is undone here, so each *)
(* history snapshot was made from the one before it by one update.         *)

InitRotate ==
    /\ call = [fn |-> "none"]
    /\ AppConstructed

NextRotate ==
    \/ handleNameSubmit /\ UNCHANGED historyVars
    \/ \E m \in {"MOVE", "PEN"} : setMode(m) /\ UNCHANGED historyVars
    \/ handlePointerDown /\ UNCHANGED historyVars
    \/ handlePointerMove /\ mode = "PEN" /\ UNCHANGED historyVars
    \/ handlePointerUp /\ UNCHANGED historyVars
    \/ executeCut /\ UNCHANGED historyVars
    \/ \E dir \in {1, -1} : handleRotate(dir) /\ UNCHANGED historyVars

SpecRotate == InitRotate /\ [][NextRotate]_vars

\* The piece with this id in the k-th snapshot
pieceIn(k, id) == history[k][findPiece(history[k], id)]

\* From snapshot k to snapshot k+1 the piece was rotated by dir quarter turns
\* and nothing else happened to the collection
RotatedBetween(k, id, dir) ==
    /\ findPiece(history[k], id) # 0
    /\ findPiece(history[k + 1], id) # 0
    /\ pieceIn(k + 1, id).rotation =
           (pieceIn(k, id).rotation + (dir * 90) + 360) % 360
    /\ pieceIn(k + 1, id).isFlipped = pieceIn(k, id).isFlipped
    /\ pieceIn(k + 1, id).cells = pieceIn(k, id).cells
    /\ \A i \in 1..Len(history[k]) :
          history[k][i].id # id => history[k + 1][i] = history[k][i]
    /\ Len(history[k + 1]) = Len(history[k])

\* C28: rotating the selected piece four times in the same direction (with
\* the re-centring shift that keeps the bounding-box centre in place, rounded
\* to whole cells) returns the piece to its original rotation, position and
\* absolute cells; likewise rotating right and then left leaves the piece's
\* absolute cells unchanged.
C28_RotationRoundTrip ==
    \A id \in UNION {idsOf(history[k]) : k \in 1..Len(history)} :
        /\ \A k \in 1..(Len(history) - 4) : \A dir \in {1, -1} :
              (\A j \in 0..3 : RotatedBetween(k + j, id, dir)) =>
                  /\ pieceIn(k + 4, id).rotation = pieceIn(k, id).rotation
                  /\ pieceIn(k + 4, id).position = pieceIn(k, id).position
                  /\ getAbsoluteCells(pieceIn(k + 4, id))
                         = getAbsoluteCells(pieceIn(k, id))
        /\ \A k \in 1..(Len(history) - 2) :
              (RotatedBetween(k, id, 1) /\ RotatedBetween(k + 1, id, -1)) =>
                  getAbsoluteCells(pieceIn(k + 2, id))
                      = getAbsoluteCells(pieceIn(k, id))

-----------------------------------------------------------------------------
(* Drawing and erasing: SpecDraw                                           *)
(*                                                                         *)
(* One player on the first level draws with the pen and the eraser between *)
(* grid points that lie on one line, diagonally, or two cells apart.       *)

StrokePoints == {Cell(4, 0), Cell(5, 0), Cell(5, 1), Cell(6, 2)}

InitDraw ==
    /\ call = [fn |-> "none"]
    /\ AppConstructed

NextDraw ==
    \/ handleNameSubmit /\ Ran("handleNameSubmit") /\ UNCHANGED created
    \/ \E m \in {"PEN", "ERASER"} : setMode(m) /\ Ran("setMode") /\ UNCHANGED created
    \/ handlePointerDownIn(PointerCells, StrokePoints)
           /\ Ran("handlePointerDown") /\ UNCHANGED created
    \/ handlePointerMoveIn(PointerCells, StrokePoints)
           /\ Ran("handlePointerMove") /\ UNCHANGED created
    \/ handlePointerUp /\ Ran("handlePointerUp") /\ UNCHANGED created

SpecDraw == InitDraw /\ [][NextDraw]_vars

\* The pointer moved from a grid point to another while drawing
DrawMoveRan ==
    /\ lastStep.op = "handlePointerMove"
    /\ lastStep.mode \in {"PEN", "ERASER"}
    /\ lastStep.isDrawing
    /\ lastStep.lastDrawGridPos # None

\* The keys of the unit edges along the path from a to b that runs along x
\* first (on the grid line y = a.y) and then along y (on the line x = b.x)
ManhattanKeys(a, b) ==
    LET loX == IF a.x <= b.x THEN a.x ELSE b.x
        hiX == IF a.x <= b.x THEN b.x ELSE a.x
        loY == IF a.y <= b.y THEN a.y ELSE b.y
        hiY == IF a.y <= b.y THEN b.y ELSE a.y
    IN  {getEdgeAsKey([x |-> x, y |-> a.y - 1, vertical |-> FALSE]) :
             x \in loX..(hiX - 1)}
        \cup {getEdgeAsKey([x |-> b.x - 1, y |-> y, vertical |-> TRUE]) :
             y \in loY..(hiY - 1)}

\* C29: while drawing, a pointer move from grid point a to a different grid
\* point b updates the cut set with exactly the |dx|+|dy| unit edges along
\* the x-then-y Manhattan path from a to b: the pen adds their keys and the
\* eraser removes them; an edge drawn twice, or in the opposite direction,
\* is stored once, and all other edges of the cut set are left unchanged.
C29_MoveDrawsManhattanPath ==
    DrawMoveRan =>
        LET a    == lastStep.lastDrawGridPos[1]
            b    == lastDrawGridPos[1]
            keys == ManhattanKeys(a, b)
        IN  /\ a # b
            /\ Cardinality(keys) = Abs(b.x - a.x) + Abs(b.y - a.y)
            /\ keys = ManhattanKeys(b, Cell(b.x, a.y)) \cup ManhattanKeys(Cell(b.x, a.y), a)
            /\ lastStep.mode = "PEN" => drawnEdges = lastStep.drawnEdges \cup keys
            /\ lastStep.mode = "ERASER" => drawnEdges = lastStep.drawnEdges \ keys

\* The eraser went diagonally over two edges that had been drawn, and
\* another edge of the cut set stayed
C29_Witness ==
    /\ DrawMoveRan
    /\ lastStep.mode = "ERASER"
    /\ LET a    == lastStep.lastDrawGridPos[1]
           b    == lastDrawGridPos[1]
           keys == ManhattanKeys(a, b)
       IN  /\ a.x # b.x /\ a.y # b.y
           /\ keys \subseteq lastStep.drawnEdges
           /\ drawnEdges # {}
           /\ drawnEdges = lastStep.drawnEdges \ keys

\* The pen went again over edges that were in the cut set already
C29_RedrawWitness ==
    /\ DrawMoveRan
    /\ lastStep.mode = "PEN"
    /\ ManhattanKeys(lastStep.lastDrawGridPos[1], lastDrawGridPos[1])
           \subseteq lastStep.drawnEdges
    /\ drawnEdges = lastStep.drawnEdges

====
